---- MODULE Spec2Model ----
(***************************************************************************)
(* Career-Assistant: the workflow orchestrator (core/workflow_manager.py)  *)
(* and the model-service gateway (models/model_manager.py with its two     *)
(* provider handlers, models/openai_handler.py and                         *)
(* models/anthropic_handler.py).                                           *)
(*                                                                         *)
(* The program is single-threaded and synchronous.  A call of a handler is *)
(* modelled as a chain of steps, one per external collaborator it waits    *)
(* for (an agent, a provider); the position in the chain is a pc variable, *)
(* so no other operation can interleave with a running call.               *)
(***************************************************************************)
EXTENDS Integers, Sequences, FiniteSets, TLC

VARIABLES
    workflow_states,     \* WorkflowManager.workflow_states: step -> bool
    wf_pc,               \* position inside process_application ("idle" between calls)
    wf_generate_letter,  \* the generate_letter argument of the running/last call
    wf_trace,            \* collaborators invoked by the running/last call, with what each did
    wf_outcome,          \* how the last call ended: none / returned (with result) / raised
    wf_calls,            \* number of process_application calls started so far
    wf_entry_states,     \* workflow_states as the running/last call found it at entry
    gw_pc,               \* position inside a ModelManager call ("idle" between calls)
    gw_call,             \* arguments of the running/last ModelManager call
    gw_service,          \* the local variable service of the running/last call
    gw_idx,              \* 0: preferred attempt; i>0: fallback loop at fallback_order[i]
    gw_prompt,           \* prompt of the pending provider request: "schema" or, for the OpenAI re-prompt, "strict"
    gw_trace,            \* provider requests of the running/last call, with each reply
    gw_outcome,          \* how the last ModelManager call ended
    fn_call,             \* a call of one scoring/rule/formatting method: its name and arguments
    fn_result            \* what that call returned or raised (NoResult before it has run)

wf_vars ==
    <<workflow_states, wf_pc, wf_generate_letter, wf_trace, wf_outcome,
      wf_calls, wf_entry_states>>
gw_vars == <<gw_pc, gw_call, gw_service, gw_idx, gw_prompt, gw_trace, gw_outcome>>
fn_vars == <<fn_call, fn_result>>
vars == <<wf_vars, gw_vars, fn_vars>>

(***************************************************************************)
(* Bounds                                                                  *)
(***************************************************************************)
\* process_application calls in one behaviour
MaxCalls == 4

(***************************************************************************)
(* WorkflowManager                                                         *)
(***************************************************************************)
\* the keys of workflow_states in insertion order
WorkflowSteps ==
    <<"document_processing", "initial_analysis", "optimization",
      "letter_generation", "quality_check">>

StepSet == {WorkflowSteps[i] : i \in 1..Len(WorkflowSteps)}

\* the collaborators process_application calls, in call order
Components ==
    <<"document_processor", "cv_analyzer", "job_analyzer", "cv_matcher",
      "ats_optimizer", "letter_writer", "coordinator">>

\* WorkflowManager.__init__: every flag False
InitialWorkflowStates == [s \in StepSet |-> FALSE]

\* mutation of _reset_workflow_states: the loop body is lost
ResetWorkflowStates_keep(states) == states

\* _reset_workflow_states
ResetWorkflowStates(states) == [s \in DOMAIN states |-> FALSE]

\* self.workflow_states[step] = True
SetState(states, step) == [states EXCEPT ![step] = TRUE]

RECURSIVE CountTrue(_, _)
CountTrue(states, i) ==
    IF i = 0 THEN 0
    ELSE (IF states[WorkflowSteps[i]] THEN 1 ELSE 0) + CountTrue(states, i - 1)

\* round(x, 2) of the rational num/den >= 0, in hundredths (half to even)
RoundHundredths(num, den) ==
    LET q == (num * 100) \div den
        r == (num * 100) % den
    IN  IF 2 * r > den \/ (2 * r = den /\ q % 2 = 1) THEN q + 1 ELSE q

\* get_workflow_status; completion_percentage is kept in hundredths
get_workflow_status(states) ==
    LET completed_steps == CountTrue(states, Len(WorkflowSteps))
        total_steps == Cardinality(DOMAIN states)
    IN  [completed_steps |-> completed_steps,
         total_steps |-> total_steps,
         completion_percentage |->
             RoundHundredths(completed_steps * 100, total_steps),
         step_status |->
             [i \in 1..Len(WorkflowSteps) |->
                 [step |-> WorkflowSteps[i],
                  completed |-> states[WorkflowSteps[i]],
                  order |-> i]]]

NoOutcome == [kind |-> "none"]
Raised(err) == [kind |-> "raised", error |-> err]

\* what process_document can do: return success, return success=False, raise
DocumentResults == {"success", "failure", "raise"}
\* what an agent call can do: return a usable mapping, return a mapping that
\* lacks the key the orchestrator indexes next, raise
AgentResults == {"ok", "missing_key", "raise"}

\* mutation of lines 73-78: the success check is lost
AfterDocument_nocheck(states, cv_result) ==
    IF cv_result = "raise" THEN [states |-> states, error |-> "Exception"]
    ELSE [states |-> SetState(states, "document_processing"), error |-> "none"]

\* process_application, lines 73-78
AfterDocument(states, cv_result) ==
    IF cv_result = "raise" THEN [states |-> states, error |-> "Exception"]
    ELSE IF cv_result = "failure" THEN [states |-> states, error |-> "ValueError"]
    ELSE [states |-> SetState(states, "document_processing"), error |-> "none"]

\* process_application, lines 81-84: the three analysis calls; only the last
\* one sets the flag.  None of the three results is indexed here.
AfterAnalysis(states, component, r) ==
    IF r = "raise" THEN [states |-> states, error |-> "Exception"]
    ELSE IF component = "cv_matcher"
         THEN [states |-> SetState(states, "initial_analysis"), error |-> "none"]
         ELSE [states |-> states, error |-> "none"]

\* mutation of lines 87-89: the flag assignment is lost
AfterOptimization_noflag(states, r) ==
    IF r = "raise" THEN [states |-> states, error |-> "Exception"]
    ELSE IF r = "missing_key" THEN [states |-> states, error |-> "KeyError"]
    ELSE [states |-> states, error |-> "none"]

\* process_application, lines 87-89
AfterOptimization(states, r) ==
    IF r = "raise" THEN [states |-> states, error |-> "Exception"]
    ELSE IF r = "missing_key" THEN [states |-> states, error |-> "KeyError"]
    ELSE [states |-> SetState(states, "optimization"), error |-> "none"]

\* mutation of lines 94-100: the flag assignment is lost
AfterLetter_noflag(states, r) ==
    IF r = "raise" THEN [states |-> states, error |-> "Exception"]
    ELSE IF r = "missing_key" THEN [states |-> states, error |-> "KeyError"]
    ELSE [states |-> states, error |-> "none"]

\* process_application, lines 94-100
AfterLetter(states, r) ==
    IF r = "raise" THEN [states |-> states, error |-> "Exception"]
    ELSE IF r = "missing_key" THEN [states |-> states, error |-> "KeyError"]
    ELSE [states |-> SetState(states, "letter_generation"), error |-> "none"]

\* process_application, lines 103-110; the report is stored, not indexed
AfterQuality(states, r) ==
    IF r = "raise" THEN [states |-> states, error |-> "Exception"]
    ELSE [states |-> SetState(states, "quality_check"), error |-> "none"]

\* One collaborator has answered: record it, apply the code that follows the
\* call, and either go on to the next collaborator or leave by the except
\* clause (lines 132-134, which re-raises and touches no flag).
WfStep(component, r, after, next) ==
    /\ wf_pc = component
    /\ wf_trace' = Append(wf_trace, [component |-> component, result |-> r])
    /\ workflow_states' = after.states
    /\ IF after.error = "none"
       THEN /\ wf_pc' = next
            /\ wf_outcome' = wf_outcome
       ELSE /\ wf_pc' = "idle"
            /\ wf_outcome' = Raised(after.error)
    /\ UNCHANGED <<wf_generate_letter, wf_calls, wf_entry_states, gw_vars, fn_vars>>

\* process_application, lines 67-70: entry and reset
ProcessApplication(generate_letter) ==
    /\ wf_pc = "idle"
    /\ wf_calls < MaxCalls
    /\ wf_calls' = wf_calls + 1
    /\ wf_entry_states' = workflow_states
    /\ workflow_states' = ResetWorkflowStates(workflow_states)
    /\ wf_generate_letter' = generate_letter
    /\ wf_trace' = <<>>
    /\ wf_outcome' = NoOutcome
    /\ wf_pc' = "document_processor"
    /\ UNCHANGED <<gw_vars, fn_vars>>

DocumentProcessorReturns ==
    \E r \in DocumentResults :
        WfStep("document_processor", r, AfterDocument(workflow_states, r),
               "cv_analyzer")

CVAnalyzerReturns ==
    \E r \in {"ok", "raise"} :
        WfStep("cv_analyzer", r,
               AfterAnalysis(workflow_states, "cv_analyzer", r), "job_analyzer")

JobAnalyzerReturns ==
    \E r \in {"ok", "raise"} :
        WfStep("job_analyzer", r,
               AfterAnalysis(workflow_states, "job_analyzer", r), "cv_matcher")

CVMatcherReturns ==
    \E r \in {"ok", "raise"} :
        WfStep("cv_matcher", r,
               AfterAnalysis(workflow_states, "cv_matcher", r), "ats_optimizer")

ATSOptimizerReturns ==
    \E r \in AgentResults :
        WfStep("ats_optimizer", r, AfterOptimization(workflow_states, r),
               IF wf_generate_letter THEN "letter_writer" ELSE "coordinator")

LetterWriterReturns ==
    \E r \in AgentResults :
        WfStep("letter_writer", r, AfterLetter(workflow_states, r),
               "coordinator")

\* lines 103-130: the quality call, then final_results with the status read
\* after the last flag is set
CoordinatorReturns ==
    \E r \in {"ok", "raise"} :
        LET after == AfterQuality(workflow_states, r) IN
        /\ wf_pc = "coordinator"
        /\ wf_trace' = Append(wf_trace, [component |-> "coordinator", result |-> r])
        /\ workflow_states' = after.states
        /\ wf_pc' = "idle"
        /\ wf_outcome' =
             IF after.error = "none"
             THEN [kind |-> "returned",
                   workflow_status |-> get_workflow_status(after.states)]
             ELSE Raised(after.error)
        /\ UNCHANGED <<wf_generate_letter, wf_calls, wf_entry_states, gw_vars, fn_vars>>

(***************************************************************************)
(* ModelManager and the two provider handlers                              *)
(***************************************************************************)
\* number of distinct field names a schema can declare
MaxFields == 2

FieldNames == <<"a", "b", "c", "d">>
Fields == {FieldNames[i] : i \in 1..MaxFields}

\* the type hint of a schema field as the handlers read it
\* (isinstance(v, list)): odd fields carry a string hint, even ones a list
FieldHint(k) ==
    LET i == CHOOSE j \in 1..MaxFields : FieldNames[j] = k
    IN  IF i % 2 = 0 THEN "list" ELSE "scalar"

\* output_schema arguments: every non-empty set of fields with its hints
Schemas ==
    {[k \in S |-> FieldHint(k)] : S \in (SUBSET Fields) \ {{}}}

\* JSON values
EmptyString == [type |-> "str", len |-> 0]
EmptyList == [type |-> "list", len |-> 0]
\* the value a provider puts under a field it does answer
ProviderValue(k) == [type |-> IF FieldHint(k) = "list" THEN "list" ELSE "str",
                     len |-> 1]

Providers == {"openai", "anthropic"}

\* ModelManager.__init__, self.model_config
model_config ==
    [default |-> "openai",
     fallback_order |-> <<"openai", "anthropic">>,
     task_preferences |->
         [t \in {"cv_analysis", "job_matching", "ats_optimization"} |->
             IF t = "job_matching" THEN "openai" ELSE "anthropic"]]

\* task_type arguments: None, the three mapped ones, an unmapped one
TaskTypes ==
    {"None", "cv_analysis", "job_matching", "ats_optimization", "letter_writing"}

\* preferred_service arguments of get_completion: None, "", the two
\* providers, a name that is no provider
PreferredServices == {"None", "", "openai", "anthropic", "cohere"}

\* Python truthiness of an Optional[str]
Falsy(x) == x \in {"None", ""}

\* A provider's answer to one request: the transport raises, or a text.
\* A text is garbage (no JSON in it), a JSON array of scalars, or a JSON
\* object with some of the fields; it comes bare, inside a markdown code
\* fence, or with prose around it.
Texts ==
    {[wrap |-> "bare", kind |-> "garbage", keys |-> {}]}
    \cup {[wrap |-> w, kind |-> "array", keys |-> {}] :
             w \in {"bare", "fenced", "prose"}}
    \cup {[wrap |-> w, kind |-> "object", keys |-> K] :
             w \in {"bare", "fenced", "prose"}, K \in SUBSET Fields}

TransportError == [wrap |-> "none", kind |-> "raise", keys |-> {}]
Replies == Texts \cup {TransportError}

\* results of parsing
DecodeError == [ok |-> FALSE, kind |-> "none", map |-> <<>>]
Parsed(text) ==
    [ok |-> TRUE, kind |-> text.kind,
     map |-> [k \in text.keys |-> ProviderValue(k)]]

\* json.loads(s.strip()): only a text that is a JSON document and nothing
\* else decodes
JsonLoads(text) ==
    IF text.wrap = "bare" /\ text.kind \in {"array", "object"}
    THEN Parsed(text) ELSE DecodeError

\* openai_handler.py lines 102-110: drop a leading ```json / ``` and a
\* trailing ```
StripFences(text) ==
    IF text.wrap = "fenced" THEN [text EXCEPT !.wrap = "bare"] ELSE text

\* anthropic_handler.py lines 88-93: the slice from the first "{" to the
\* last "}"; a text with no such slice raises ValueError
ExtractBraces(text) ==
    IF text.kind = "object"
    THEN [found |-> TRUE, text |-> [text EXCEPT !.wrap = "bare"]]
    ELSE [found |-> FALSE, text |-> text]

\* what a handler call hands back to ModelManager
Return(v) == [kind |-> "return", value |-> v]
Object(m) == [kind |-> "object", map |-> m]
Array == [kind |-> "array", map |-> <<>>]
TextValue(text) == [kind |-> "text", map |-> <<>>, text |-> text]
NoneValue == [kind |-> "None", map |-> <<>>]
Raise(err) == [kind |-> "raise", error |-> err]
Reprompt == [kind |-> "reprompt"]

\* mutation of the default comprehension: the isinstance test is lost
DefaultResponse_allstr(output_schema) ==
    [k \in DOMAIN output_schema |-> EmptyString]

\* {k: [] if isinstance(v, list) else "" for k, v in output_schema.items()}
\* (openai_handler.py lines 146 and 150)
DefaultResponse(output_schema) ==
    [k \in DOMAIN output_schema |->
        IF output_schema[k] = "list" THEN EmptyList ELSE EmptyString]

\* openai_handler.py lines 116-119: fill the schema keys the object lacks
InjectDefaults(map, output_schema) ==
    [k \in DOMAIN map \cup DOMAIN output_schema |->
        IF k \in DOMAIN map THEN map[k]
        ELSE IF output_schema[k] = "list" THEN EmptyList ELSE EmptyString]

\* mutation of the outer except clause: it re-raises as the Anthropic
\* handler does
OpenAIOnException_raise(output_schema) == Raise("Exception")

\* openai_handler.py lines 148-150: any exception inside
\* get_structured_completion is turned into the default
OpenAIOnException(output_schema) ==
    Return(Object(DefaultResponse(output_schema)))

\* openai_handler.py lines 93-126: the first request answered
OpenAIFirst(output_schema, reply) ==
    IF reply.kind = "raise" THEN OpenAIOnException(output_schema)
    ELSE LET p == JsonLoads(StripFences(reply)) IN
         IF ~p.ok THEN Reprompt
         ELSE IF p.kind = "object"
              THEN Return(Object(InjectDefaults(p.map, output_schema)))
              \* a list: "key not in" is true for the first schema key and
              \* the item assignment raises TypeError
              ELSE OpenAIOnException(output_schema)

\* openai_handler.py lines 135-146: the re-prompt answered
OpenAIRetry(output_schema, reply) ==
    IF reply.kind = "raise" THEN OpenAIOnException(output_schema)
    ELSE LET p == JsonLoads(reply) IN
         IF ~p.ok THEN Return(Object(DefaultResponse(output_schema)))
         ELSE IF p.kind = "object" THEN Return(Object(p.map))
              ELSE Return(Array)

\* anthropic_handler.py lines 81-100
AnthropicStructured(output_schema, reply) ==
    IF reply.kind = "raise" THEN Raise("Exception")
    ELSE LET e == ExtractBraces(reply) IN
         IF ~e.found THEN Raise("ValueError")
         ELSE LET p == JsonLoads(e.text) IN
              IF p.ok THEN Return(Object(p.map)) ELSE Raise("ValueError")

\* OpenAIHandler.get_completion / AnthropicHandler.get_completion: the text,
\* or the transport's exception re-raised
HandlerCompletion(reply) ==
    IF reply.kind = "raise" THEN Raise("Exception")
    ELSE Return(TextValue(reply))

\* mutation of get_structured_completion line 85: the table is not consulted
PreferredFor_default(task_type) == model_config.default

\* self.model_config['task_preferences'].get(task_type, default)
PreferredFor(task_type) ==
    IF task_type \in DOMAIN model_config.task_preferences
    THEN model_config.task_preferences[task_type]
    ELSE model_config.default

\* get_completion lines 53-55
ServiceFor(task_type, preferred_service) ==
    IF ~Falsy(preferred_service) THEN preferred_service
    ELSE PreferredFor(task_type)

\* mutation of the fallback loop: the "!= service" test is lost
NextFallback_same(i, service) ==
    LET order == model_config.fallback_order
        later == {j \in (i + 1)..Len(order) : TRUE}
    IN  IF later = {} THEN 0
        ELSE CHOOSE j \in later : \A l \in later : j <= l

\* the loop of lines 67-76 / 103-116: the next entry of fallback_order after
\* position i that is not the preferred service; 0 when the loop is over
NextFallback(i, service) ==
    LET order == model_config.fallback_order
        later == {j \in (i + 1)..Len(order) : order[j] # service}
    IN  IF later = {} THEN 0
        ELSE CHOOSE j \in later : \A l \in later : j <= l

NoCall == [entry |-> "none", method |-> "none", task_type |-> "None",
           preferred_service |-> "None", output_schema |-> <<>>]

\* ModelManager after a handler call came back with h (lines 59-78 and
\* 91-118): a value is returned as it is; an exception moves to the next
\* fallback entry, or raises the terminal error after the last one
ManagerContinue(h) ==
    IF h.kind = "return"
    THEN /\ gw_outcome' = [kind |-> "returned", value |-> h.value]
         /\ gw_pc' = "idle"
         /\ UNCHANGED gw_idx
    ELSE LET j == NextFallback(gw_idx, gw_service) IN
         IF j = 0
         THEN /\ gw_outcome' = Raised("All services failed")
              /\ gw_pc' = "idle"
              /\ UNCHANGED gw_idx
         ELSE /\ gw_outcome' = gw_outcome
              /\ gw_pc' = model_config.fallback_order[j]
              /\ gw_idx' = j

\* entry of a ModelManager call: the service is chosen and dispatched; a
\* service that is neither provider falls through both branches and the
\* call returns None
Enter(call, service) ==
    /\ gw_pc = "idle"
    /\ gw_call' = call
    /\ gw_service' = service
    /\ gw_idx' = 0
    /\ gw_trace' = <<>>
    /\ gw_prompt' = "schema"
    /\ IF service \in Providers
       THEN /\ gw_pc' = service
            /\ gw_outcome' = NoOutcome
       ELSE /\ gw_pc' = "idle"
            /\ gw_outcome' = [kind |-> "returned", value |-> NoneValue]
    /\ UNCHANGED <<wf_vars, fn_vars>>

\* ModelManager.get_completion, lines 53-63
GetCompletion(task_type, preferred_service) ==
    Enter([entry |-> "get_completion", method |-> "completion",
           task_type |-> task_type,
           preferred_service |-> preferred_service, output_schema |-> <<>>],
          ServiceFor(task_type, preferred_service))

\* ModelManager.get_structured_completion, lines 85-99, entered directly or
\* through one of the two convenience methods
StructuredCall(entry, task_type, output_schema) ==
    Enter([entry |-> entry, method |-> "structured", task_type |-> task_type,
           preferred_service |-> "None", output_schema |-> output_schema],
          PreferredFor(task_type))

GetStructuredCompletion(task_type, output_schema) ==
    StructuredCall("get_structured_completion", task_type, output_schema)

\* the output_schema of ModelManager.analyze_cv, by type hint
AnalyzeCVSchema ==
    [k \in {"skills", "experience_years", "key_achievements",
            "missing_elements", "improvement_suggestions"} |->
        IF k = "experience_years" THEN "scalar" ELSE "list"]

\* the output_schema of ModelManager.match_job, by type hint
MatchJobSchema ==
    [k \in {"match_percentage", "matching_skills", "missing_skills",
            "recommendations"} |->
        IF k = "match_percentage" THEN "scalar" ELSE "list"]

\* ModelManager.analyze_cv
AnalyzeCV == StructuredCall("analyze_cv", "cv_analysis", AnalyzeCVSchema)

\* ModelManager.match_job
MatchJob == StructuredCall("match_job", "job_matching", MatchJobSchema)

\* the temperature argument of a handler's get_completion, in tenths; None when the caller
\* gives none
NoTemperature == [none |-> TRUE, tenths |-> 0]
Temperature(tenths) == [none |-> FALSE, tenths |-> tenths]

\* the entry of model_configs for the handler's model ('gpt-4o-mini',
\* 'claude-3-sonnet-20240229'): temperature 0.7, in tenths
handler_config == [openai |-> [temperature |-> 7], anthropic |-> [temperature |-> 7]]

\* the temperature each call site passes to get_completion: OpenAIHandler's structured
\* attempt 0.1 and re-prompt 0.0, AnthropicHandler's structured attempt 0.3, ModelManager's
\* plain completion none
TemperatureArgument(provider, method, prompt) ==
    IF method # "structured" THEN NoTemperature
    ELSE IF provider = "anthropic" THEN Temperature(3)
    ELSE IF prompt = "strict" THEN Temperature(0)
    ELSE Temperature(1)

\* temperature or config['temperature']: None and 0.0 are both falsy
SamplingTemperature(provider, temperature) ==
    IF ~temperature.none /\ temperature.tenths # 0
    THEN temperature.tenths
    ELSE handler_config[provider].temperature

\* one invocation of a provider: the prompt, the temperature that reaches the API call, the
\* reply
Request(provider, reply) ==
    [provider |-> provider, prompt |-> gw_prompt, reply |-> reply,
     temperature |->
         SamplingTemperature(provider,
                             TemperatureArgument(provider, gw_call.method, gw_prompt))]

\* the OpenAI provider answers the handler's (first) request
OpenAIReplies ==
    \E reply \in Replies :
        /\ gw_pc = "openai"
        /\ gw_prompt = "schema"
        /\ gw_trace' = Append(gw_trace, Request("openai", reply))
        /\ LET h == IF gw_call.method = "structured"
                    THEN OpenAIFirst(gw_call.output_schema, reply)
                    ELSE HandlerCompletion(reply)
           IN  IF h.kind = "reprompt"
               THEN /\ gw_prompt' = "strict"
                    /\ UNCHANGED <<gw_pc, gw_idx, gw_outcome>>
               ELSE /\ gw_prompt' = "schema"
                    /\ ManagerContinue(h)
        /\ UNCHANGED <<gw_call, gw_service, wf_vars, fn_vars>>

\* mutation of the re-prompt: a reply that does not parse is re-prompted again
OpenAIRepliesToReprompt_again ==
    \E reply \in Replies :
        /\ gw_pc = "openai"
        /\ gw_prompt = "strict"
        /\ gw_trace' = Append(gw_trace, Request("openai", reply))
        /\ IF reply.kind # "raise" /\ ~JsonLoads(reply).ok
           THEN UNCHANGED <<gw_prompt, gw_pc, gw_idx, gw_outcome>>
           ELSE /\ gw_prompt' = "schema"
                /\ ManagerContinue(OpenAIRetry(gw_call.output_schema, reply))
        /\ UNCHANGED <<gw_call, gw_service, wf_vars, fn_vars>>

\* the OpenAI provider answers the stricter re-prompt
OpenAIRepliesToReprompt ==
    \E reply \in Replies :
        /\ gw_pc = "openai"
        /\ gw_prompt = "strict"
        /\ gw_trace' = Append(gw_trace, Request("openai", reply))
        /\ gw_prompt' = "schema"
        /\ ManagerContinue(OpenAIRetry(gw_call.output_schema, reply))
        /\ UNCHANGED <<gw_call, gw_service, wf_vars, fn_vars>>

\* the Anthropic provider answers the handler's request
AnthropicReplies ==
    \E reply \in Replies :
        /\ gw_pc = "anthropic"
        /\ gw_trace' = Append(gw_trace, Request("anthropic", reply))
        /\ gw_prompt' = "schema"
        /\ ManagerContinue(IF gw_call.method = "structured"
                           THEN AnthropicStructured(gw_call.output_schema, reply)
                           ELSE HandlerCompletion(reply))
        /\ UNCHANGED <<gw_call, gw_service, wf_vars, fn_vars>>

InitGateway ==
    /\ gw_pc = "idle"
    /\ gw_call = NoCall
    /\ gw_service = "None"
    /\ gw_idx = 0
    /\ gw_prompt = "schema"
    /\ gw_trace = <<>>
    /\ gw_outcome = NoOutcome

NextGateway ==
    \/ \E t \in TaskTypes, p \in PreferredServices : GetCompletion(t, p)
    \/ \E t \in TaskTypes, s \in Schemas : GetStructuredCompletion(t, s)
    \/ AnalyzeCV
    \/ MatchJob
    \/ OpenAIReplies
    \/ OpenAIRepliesToReprompt
    \/ AnthropicReplies

InitWorkflow ==
    /\ workflow_states = InitialWorkflowStates
    /\ wf_pc = "idle"
    /\ wf_generate_letter = TRUE
    /\ wf_trace = <<>>
    /\ wf_outcome = NoOutcome
    /\ wf_calls = 0
    /\ wf_entry_states = InitialWorkflowStates

NextWorkflow ==
    \/ \E gl \in BOOLEAN : ProcessApplication(gl)
    \/ DocumentProcessorReturns
    \/ CVAnalyzerReturns
    \/ JobAnalyzerReturns
    \/ CVMatcherReturns
    \/ ATSOptimizerReturns
    \/ LetterWriterReturns
    \/ CoordinatorReturns

\* no scoring, rule or formatting method has been called
NotCalled == [op |-> "none"]

\* the call under study has not run yet
NoResult == [kind |-> "none"]

InitAtRest ==
    /\ fn_call = NotCalled
    /\ fn_result = NoResult

Init == InitWorkflow /\ InitGateway /\ InitAtRest

\* the orchestrator alone, the gateway at rest
SpecWorkflow == Init /\ [][NextWorkflow]_vars

\* the gateway alone, the orchestrator at rest
SpecGateway == Init /\ [][NextGateway]_vars

(***************************************************************************)
(* Claims about WorkflowManager                                            *)
(***************************************************************************)
\* position of a workflow step in WorkflowSteps
StepIndex(step) == CHOOSE i \in 1..Len(WorkflowSteps) : WorkflowSteps[i] = step

\* the step a collaborator's call belongs to
StepOf(component) ==
    CASE component = "document_processor" -> "document_processing"
      [] component \in {"cv_analyzer", "job_analyzer", "cv_matcher"} -> "initial_analysis"
      [] component = "ats_optimizer" -> "optimization"
      [] component = "letter_writer" -> "letter_generation"
      [] component = "coordinator" -> "quality_check"

\* the collaborator answered usably in the running/last call
Answered(component) ==
    \E i \in 1..Len(wf_trace) :
        /\ wf_trace[i].component = component
        /\ wf_trace[i].result \in {"success", "ok"}

\* the step ran to its end in the running/last call
StageCompleted(step) ==
    \A i \in 1..Len(Components) :
        StepOf(Components[i]) = step => Answered(Components[i])

\* C1: a workflow flag is true exactly when its stage completed in the most
\* recent process_application call; when that call aborted, the flag of the
\* stage it aborted in and of every later stage is false, whatever the flags
\* were when the call was entered.
C1_FlagsReflectLastCall ==
    /\ \A step \in StepSet : workflow_states[step] <=> StageCompleted(step)
    /\ wf_outcome.kind = "raised" =>
          LET failed == StepOf(wf_trace[Len(wf_trace)].component) IN
          \A step \in StepSet :
              StepIndex(step) >= StepIndex(failed) => ~workflow_states[step]

\* C1 witness: a call that found all five flags set by an earlier call and
\* aborted in the optimization stage
C1_Witness ==
    /\ wf_pc = "idle"
    /\ wf_outcome.kind = "raised"
    /\ \A step \in StepSet : wf_entry_states[step]
    /\ wf_trace[Len(wf_trace)].component = "ats_optimizer"
    /\ workflow_states["initial_analysis"]
    /\ ~workflow_states["quality_check"]

\* the document collaborator reported success=False in the running/last call
IngestionFailed ==
    \E i \in 1..Len(wf_trace) :
        /\ wf_trace[i].component = "document_processor"
        /\ wf_trace[i].result = "failure"

\* C2: when document ingestion reports success=false the call raises
\* ValueError, returns no result, has invoked nothing but the document
\* collaborator, and every workflow flag is false.
C2_IngestionFailureAborts ==
    IngestionFailed =>
        /\ wf_pc = "idle"
        /\ wf_outcome = [kind |-> "raised", error |-> "ValueError"]
        /\ Len(wf_trace) = 1
        /\ \A step \in StepSet : ~workflow_states[step]

\* C2 witness: ingestion failed in a call entered with document_processing
\* still set by the call before
C2_Witness ==
    /\ IngestionFailed
    /\ wf_entry_states["document_processing"]

\* C3: a call with generate_letter that returns normally leaves all five
\* flags true and reports 5 of 5 steps, 100 percent, in its result.
C3_SuccessIsComplete ==
    (wf_outcome.kind = "returned" /\ wf_generate_letter) =>
        /\ \A step \in StepSet : workflow_states[step]
        /\ wf_outcome.workflow_status.completed_steps = 5
        /\ wf_outcome.workflow_status.total_steps = 5
        /\ wf_outcome.workflow_status.completion_percentage = 100 * 100

\* C3 witness: a call with generate_letter returned
C3_Witness ==
    /\ wf_pc = "idle"
    /\ wf_outcome.kind = "returned"
    /\ wf_generate_letter
    /\ Len(wf_trace) = Len(Components)

(***************************************************************************)
(* Claims about ModelManager                                               *)
(***************************************************************************)
\* a ModelManager call has ended
GatewayDone == gw_pc = "idle" /\ gw_outcome.kind # "none"

\* the providers contacted by the running/last call, in order
Contacted == [i \in 1..Len(gw_trace) |-> gw_trace[i].provider]

\* the provider's transport raised on request i
TransportFailed(i) == gw_trace[i].reply.kind = "raise"

\* provider p was contacted and its transport raised
ProviderRaised(p) ==
    \E i \in 1..Len(gw_trace) : gw_trace[i].provider = p /\ TransportFailed(i)

OtherProvider(p) == IF p = "openai" THEN "anthropic" ELSE "openai"

\* the order the claim prescribes: the preferred provider, then the other
\* entries of the declared fallback order <<openai, anthropic>>
PrescribedOrder(service) ==
    IF service = "openai" THEN <<"openai", "anthropic">>
    ELSE <<"anthropic", "openai">>

\* C4: get_completion contacts the preferred provider first, then on a raise
\* every other provider in declared order, each at most once; it returns
\* the first successful response, and raises "All services failed" if and
\* only if every configured provider raised.
C4_CompletionFallback ==
    (GatewayDone /\ gw_call.method = "completion") =>
        /\ gw_service \in Providers =>
              /\ Len(gw_trace) >= 1
              /\ Contacted = SubSeq(PrescribedOrder(gw_service), 1, Len(gw_trace))
              /\ \A i \in 1..(Len(gw_trace) - 1) : TransportFailed(i)
        /\ gw_outcome.kind = "returned" /\ gw_service \in Providers =>
              /\ ~TransportFailed(Len(gw_trace))
              /\ gw_outcome.value.kind = "text"
              /\ gw_outcome.value.text = gw_trace[Len(gw_trace)].reply
        /\ gw_outcome = [kind |-> "raised", error |-> "All services failed"]
              <=> \A p \in Providers : ProviderRaised(p)
        /\ gw_outcome.kind = "raised" => gw_outcome.error = "All services failed"

\* C4 witness: the preferred provider raised and the fallback answered
C4_Witness ==
    /\ GatewayDone
    /\ gw_call.method = "completion"
    /\ Len(gw_trace) = 2
    /\ TransportFailed(1)
    /\ gw_outcome.kind = "returned"
    /\ gw_outcome.value.kind = "text"

\* C5: in a structured completion, a transport failure of the preferred
\* provider's call is followed by an attempt on the other provider before
\* the call returns.
C5_StructuredTransportFallback ==
    (GatewayDone /\ gw_call.method = "structured"
       /\ gw_trace[1].provider = gw_service /\ TransportFailed(1)) =>
        \E i \in 1..Len(gw_trace) :
            gw_trace[i].provider = OtherProvider(gw_service)

\* the text of request i is not JSON as the handler reads it there
Unparseable(i) ==
    LET q == gw_trace[i] IN
    /\ q.reply.kind # "raise"
    /\ IF q.provider = "anthropic"
       THEN q.reply.kind # "object"
       ELSE IF q.prompt = "strict"
            THEN ~(q.reply.wrap = "bare" /\ q.reply.kind \in {"array", "object"})
            ELSE ~(q.reply.wrap \in {"bare", "fenced"}
                     /\ q.reply.kind \in {"array", "object"})

\* C6: in a structured completion an unparseable response is followed by
\* exactly one stricter re-prompt to the same provider, and the provider
\* changes only after a transport exception.
C6_ParseFailureReprompts ==
    (GatewayDone /\ gw_call.method = "structured") =>
        /\ \A i \in 1..Len(gw_trace) :
              (Unparseable(i) /\ gw_trace[i].prompt = "schema") =>
                  /\ i + 1 <= Len(gw_trace)
                  /\ gw_trace[i + 1].provider = gw_trace[i].provider
                  /\ gw_trace[i + 1].prompt = "strict"
        /\ \A i \in 1..Len(gw_trace) :
              gw_trace[i].prompt = "strict" =>
                  /\ i > 1
                  /\ gw_trace[i - 1].prompt = "schema"
                  /\ Unparseable(i - 1)
        /\ \A i \in 2..Len(gw_trace) :
              gw_trace[i].provider # gw_trace[i - 1].provider =>
                  TransportFailed(i - 1)

\* C7: a structured completion never raises to its caller, whatever the
\* task type and whatever the providers do; get_completion raises when all
\* providers fail.
C7_StructuredNeverRaises ==
    /\ gw_call.method = "structured" => gw_outcome.kind # "raised"
    /\ (GatewayDone /\ gw_call.method = "structured") =>
          gw_outcome.kind = "returned"
    /\ (GatewayDone /\ gw_call.method = "completion"
          /\ \A p \in Providers : ProviderRaised(p)) =>
          gw_outcome.kind = "raised"

\* C7 witness: a structured call returned although the transports of both
\* providers raised
C7_Witness ==
    /\ GatewayDone
    /\ gw_call.method = "structured"
    /\ \A p \in Providers : ProviderRaised(p)
    /\ gw_outcome.kind = "returned"

\* the default the schema prescribes for a field
SchemaDefault(hint) == IF hint = "list" THEN EmptyList ELSE EmptyString

\* the keys of the response the returned mapping was parsed from
LastReplyKeys == gw_trace[Len(gw_trace)].reply.keys

\* C8: however a structured completion returns, the result is a mapping
\* that holds every key of output_schema, a key missing from the parsed
\* response being filled with [] (list field) or "" (scalar field).
C8_DefaultInjection ==
    (GatewayDone /\ gw_call.method = "structured"
       /\ gw_outcome.kind = "returned") =>
        /\ gw_outcome.value.kind = "object"
        /\ \A k \in DOMAIN gw_call.output_schema :
              /\ k \in DOMAIN gw_outcome.value.map
              /\ k \notin LastReplyKeys =>
                    gw_outcome.value.map[k] =
                        SchemaDefault(gw_call.output_schema[k])

\* the last two requests are OpenAI's schema prompt and its re-prompt, and
\* neither text decoded
BothParsesFailed ==
    LET n == Len(gw_trace) IN
    /\ n >= 2
    /\ gw_trace[n].provider = "openai" /\ gw_trace[n].prompt = "strict"
    /\ gw_trace[n - 1].provider = "openai" /\ gw_trace[n - 1].prompt = "schema"
    /\ Unparseable(n - 1)
    /\ Unparseable(n)

\* C9: when the first response and the re-prompt response both fail to
\* parse, the structured completion returns exactly the schema-shaped
\* default: the schema's key set, [] under list fields, "" under scalars.
C9_DegradedDefault ==
    (GatewayDone /\ gw_call.method = "structured" /\ BothParsesFailed) =>
        /\ gw_outcome.kind = "returned"
        /\ gw_outcome.value.kind = "object"
        /\ DOMAIN gw_outcome.value.map = DOMAIN gw_call.output_schema
        /\ \A k \in DOMAIN gw_call.output_schema :
              gw_outcome.value.map[k] =
                  IF gw_call.output_schema[k] = "list"
                  THEN [type |-> "list", len |-> 0]
                  ELSE [type |-> "str", len |-> 0]

\* C9 witness: both parses failed under a schema with a list field and a
\* scalar field
C9_Witness ==
    /\ GatewayDone
    /\ gw_call.method = "structured"
    /\ BothParsesFailed
    /\ \E k \in DOMAIN gw_call.output_schema : gw_call.output_schema[k] = "list"
    /\ \E k \in DOMAIN gw_call.output_schema : gw_call.output_schema[k] = "scalar"

\* the provider the static table gives a task type, written out
TableProvider(task_type) ==
    IF task_type \in {"cv_analysis", "ats_optimization"} THEN "anthropic"
    ELSE "openai"

\* C10 as stated: the first provider any gateway call invokes is the one
\* the task_preferences table maps its task_type to, openai when the task
\* type is absent or unmapped.
C10_RoutingByTaskTypeOnly ==
    (gw_call.method # "none" /\ (gw_pc # "idle" \/ GatewayDone)) =>
        /\ gw_pc # "idle" /\ gw_trace = <<>> => gw_pc = TableProvider(gw_call.task_type)
        /\ gw_trace # <<>> => gw_trace[1].provider = TableProvider(gw_call.task_type)
        /\ GatewayDone => gw_trace # <<>>

\* the provider a call names itself, if it names one
Override ==
    gw_call.entry = "get_completion" /\ ~(gw_call.preferred_service \in {"None", ""})

\* C10 amended: the first provider invoked is the table's provider for the
\* task type (openai when absent or unmapped) for every structured call and
\* for every get_completion call without a preferred_service; a
\* get_completion call with a preferred_service goes to that provider
\* first.  analyze_cv goes to Anthropic first, match_job to OpenAI first.
C10_Routing ==
    (gw_call.method # "none" /\ (gw_pc # "idle" \/ GatewayDone)) =>
        LET first == IF gw_trace = <<>> THEN gw_pc ELSE gw_trace[1].provider IN
        /\ ~Override =>
              /\ first = TableProvider(gw_call.task_type)
              /\ GatewayDone => gw_trace # <<>>
        /\ (Override /\ gw_call.preferred_service \in Providers) =>
              first = gw_call.preferred_service
        /\ gw_call.entry = "analyze_cv" => first = "anthropic"
        /\ gw_call.entry = "match_job" => first = "openai"

\* C10 witness: a structured call for a task the table maps to Anthropic has
\* made its first request
C10_Witness ==
    /\ gw_call.method = "structured"
    /\ gw_call.task_type = "ats_optimization"
    /\ Len(gw_trace) >= 1
    /\ gw_trace[1].provider = "anthropic"

(***************************************************************************)
(* Python str, modelled as a sequence of one-character strings             *)
(***************************************************************************)
UpperCase ==
    <<"A","B","C","D","E","F","G","H","I","J","K","L","M",
      "N","O","P","Q","R","S","T","U","V","W","X","Y","Z">>

LowerCase ==
    <<"a","b","c","d","e","f","g","h","i","j","k","l","m",
      "n","o","p","q","r","s","t","u","v","w","x","y","z">>

Digits == <<"0","1","2","3","4","5","6","7","8","9">>

Range(f) == {f[i] : i \in DOMAIN f}

\* c.isalnum()
isalnum(c) == c \in Range(UpperCase) \cup Range(LowerCase) \cup Range(Digits)

\* c.isspace()
isspace(c) == c \in {" ", "\t", "\n"}

\* c.lower()
lower(c) ==
    IF c \in Range(UpperCase)
    THEN LowerCase[CHOOSE i \in DOMAIN UpperCase : UpperCase[i] = c]
    ELSE c

\* s[i:].startswith(sub), i counted from 1
StartsAt(s, sub, i) ==
    /\ i + Len(sub) - 1 <= Len(s)
    /\ SubSeq(s, i, i + Len(sub) - 1) = sub

\* sub in s
Contains(sub, s) == \E i \in 1..(Len(s) - Len(sub) + 1) : StartsAt(s, sub, i)

\* s.replace(old, new) for a non-empty old: the non-overlapping occurrences, left to right
RECURSIVE ReplaceFrom(_, _, _, _)
ReplaceFrom(s, old, new, i) ==
    IF i > Len(s) THEN <<>>
    ELSE IF StartsAt(s, old, i) THEN new \o ReplaceFrom(s, old, new, i + Len(old))
    ELSE <<s[i]>> \o ReplaceFrom(s, old, new, i + 1)

replace(s, old, new) == ReplaceFrom(s, old, new, 1)

\* s.split(): the maximal runs of non-whitespace characters
RECURSIVE SplitFrom(_, _, _)
SplitFrom(s, i, word) ==
    IF i > Len(s) THEN (IF word = <<>> THEN <<>> ELSE <<word>>)
    ELSE IF isspace(s[i])
         THEN (IF word = <<>> THEN <<>> ELSE <<word>>) \o SplitFrom(s, i + 1, <<>>)
         ELSE SplitFrom(s, i + 1, Append(word, s[i]))

split(s) == SplitFrom(s, 1, <<>>)

\* sep.join(words)
RECURSIVE join(_, _)
join(sep, words) ==
    IF words = <<>> THEN <<>>
    ELSE IF Len(words) = 1 THEN words[1]
    ELSE words[1] \o sep \o join(sep, Tail(words))

(***************************************************************************)
(* ATSRules (utils/ats_rules.py)                                           *)
(***************************************************************************)
\* structure_rules['required_sections']: contact_information, professional_experience,
\* education, skills
required_sections ==
    <<<<"c","o","n","t","a","c","t","_","i","n","f","o","r","m","a","t","i","o","n">>,
      <<"p","r","o","f","e","s","s","i","o","n","a","l","_","e","x","p","e","r","i","e","n","c","e">>,
      <<"e","d","u","c","a","t","i","o","n">>,
      <<"s","k","i","l","l","s">>>>

\* structure_rules['section_titles'], a dict in insertion order: the keys contact,
\* experience, education, skills, each with its accepted titles
section_titles ==
    <<[stype |-> <<"c","o","n","t","a","c","t">>,
       variants |->
         <<<<"c","o","n","t","a","c","t">>,
           <<"c","o","n","t","a","c","t"," ","i","n","f","o","r","m","a","t","i","o","n">>,
           <<"p","e","r","s","o","n","a","l"," ","i","n","f","o","r","m","a","t","i","o","n">>,
           <<"p","e","r","s","o","n","a","l"," ","d","e","t","a","i","l","s">>,
           <<"p","e","r","s","o","n","a","l"," ","i","n","f","o">>>>],
      [stype |-> <<"e","x","p","e","r","i","e","n","c","e">>,
       variants |->
         <<<<"e","x","p","e","r","i","e","n","c","e">>,
           <<"w","o","r","k"," ","e","x","p","e","r","i","e","n","c","e">>,
           <<"p","r","o","f","e","s","s","i","o","n","a","l"," ","e","x","p","e","r","i","e","n","c","e">>,
           <<"w","o","r","k"," ","h","i","s","t","o","r","y">>,
           <<"e","m","p","l","o","y","m","e","n","t"," ","h","i","s","t","o","r","y">>,
           <<"p","r","o","f","e","s","s","i","o","n","a","l"," ","b","a","c","k","g","r","o","u","n","d">>>>],
      [stype |-> <<"e","d","u","c","a","t","i","o","n">>,
       variants |->
         <<<<"e","d","u","c","a","t","i","o","n">>,
           <<"a","c","a","d","e","m","i","c"," ","b","a","c","k","g","r","o","u","n","d">>,
           <<"q","u","a","l","i","f","i","c","a","t","i","o","n","s">>,
           <<"a","c","a","d","e","m","i","c"," ","q","u","a","l","i","f","i","c","a","t","i","o","n","s">>,
           <<"e","d","u","c","a","t","i","o","n","a","l"," ","b","a","c","k","g","r","o","u","n","d">>>>],
      [stype |-> <<"s","k","i","l","l","s">>,
       variants |->
         <<<<"s","k","i","l","l","s">>,
           <<"t","e","c","h","n","i","c","a","l"," ","s","k","i","l","l","s">>,
           <<"c","o","m","p","e","t","e","n","c","i","e","s">>,
           <<"k","e","y"," ","s","k","i","l","l","s">>,
           <<"c","o","r","e"," ","c","o","m","p","e","t","e","n","c","i","e","s">>,
           <<"p","r","o","f","e","s","s","i","o","n","a","l"," ","s","k","i","l","l","s">>>>]>>

\* the replacements dict of _normalize_section_title in insertion order: edu, academic,
\* qualification -> education; exp, professional, employment, work -> experience;
\* comp -> competencies; tech -> technical
replacements ==
    <<<<<<"e","d","u">>, <<"e","d","u","c","a","t","i","o","n">>>>,
      <<<<"a","c","a","d","e","m","i","c">>, <<"e","d","u","c","a","t","i","o","n">>>>,
      <<<<"q","u","a","l","i","f","i","c","a","t","i","o","n">>, <<"e","d","u","c","a","t","i","o","n">>>>,
      <<<<"e","x","p">>, <<"e","x","p","e","r","i","e","n","c","e">>>>,
      <<<<"p","r","o","f","e","s","s","i","o","n","a","l">>, <<"e","x","p","e","r","i","e","n","c","e">>>>,
      <<<<"e","m","p","l","o","y","m","e","n","t">>, <<"e","x","p","e","r","i","e","n","c","e">>>>,
      <<<<"w","o","r","k">>, <<"e","x","p","e","r","i","e","n","c","e">>>>,
      <<<<"c","o","m","p">>, <<"c","o","m","p","e","t","e","n","c","i","e","s">>>>,
      <<<<"t","e","c","h">>, <<"t","e","c","h","n","i","c","a","l">>>>>>

\* _normalize_section_title
RECURSIVE ApplyReplacements(_, _)
ApplyReplacements(normalized, i) ==
    IF i > Len(replacements) THEN normalized
    ELSE LET old == replacements[i][1]
             new == replacements[i][2]
         IN  ApplyReplacements(IF Contains(old, normalized)
                               THEN replace(normalized, old, new)
                               ELSE normalized,
                               i + 1)

normalize_section_title(title) ==
    LET kept == SelectSeq(title, LAMBDA c : isalnum(c) \/ isspace(c))
        lowered == [i \in DOMAIN kept |-> lower(kept[i])]
    IN  ApplyReplacements(join(<<" ">>, split(lowered)), 1)

\* the next(...) of validate_structure: the first key of section_titles that contains the
\* required name without its underscores, as an index into section_titles; 0 for None
SectionType(required) ==
    LET name == replace(required, <<"_">>, <<>>)
        hits == {i \in DOMAIN section_titles : Contains(name, section_titles[i].stype)}
    IN  IF hits = {} THEN 0 ELSE CHOOSE i \in hits : \A j \in hits : i <= j

\* some normalized variant of section type t is a substring of some normalized input title
VariantMatches(t, normalized_sections) ==
    LET variants == [j \in DOMAIN section_titles[t].variants |->
                        normalize_section_title(section_titles[t].variants[j])]
    IN  \E j \in DOMAIN variants : \E k \in DOMAIN normalized_sections :
            Contains(variants[j], normalized_sections[k])

\* "Missing required section: "
MissingPrefix ==
    <<"M","i","s","s","i","n","g"," ","r","e","q","u","i","r","e","d"," ","s","e","c","t","i","o","n",":"," ">>

validate_structure(sections) ==
    LET normalized_sections == [k \in DOMAIN sections |-> normalize_section_title(sections[k])]
        missing == SelectSeq(required_sections,
                             LAMBDA required :
                                 /\ SectionType(required) # 0
                                 /\ ~VariantMatches(SectionType(required), normalized_sections))
        issues == [k \in DOMAIN missing |-> MissingPrefix \o missing[k]]
    IN  [valid |-> Len(issues) = 0, issues |-> issues]

\* section titles a CV may carry: Contact Information, Work History, Education, Skills,
\* Personal Info, PROFESSIONAL EXPERIENCE, "Core  Competencies:", Summary
TitlePool ==
    {<<"C","o","n","t","a","c","t"," ","I","n","f","o","r","m","a","t","i","o","n">>,
     <<"W","o","r","k"," ","H","i","s","t","o","r","y">>,
     <<"E","d","u","c","a","t","i","o","n">>,
     <<"S","k","i","l","l","s">>,
     <<"P","e","r","s","o","n","a","l"," ","I","n","f","o">>,
     <<"P","R","O","F","E","S","S","I","O","N","A","L"," ","E","X","P","E","R","I","E","N","C","E">>,
     <<"C","o","r","e"," "," ","C","o","m","p","e","t","e","n","c","i","e","s",":">>,
     <<"S","u","m","m","a","r","y">>}

\* titles in one CV
MaxSections == 3

SeqsUpTo(S, n) == UNION {[1..k -> S] : k \in 0..n}

Returned(value) == [kind |-> "returned", value |-> value]

ValidateStructure ==
    /\ fn_call.op = "validate_structure"
    /\ fn_result = NoResult
    /\ fn_result' = Returned(validate_structure(fn_call.sections))
    /\ UNCHANGED <<fn_call, wf_vars, gw_vars>>

InitRules ==
    /\ InitWorkflow
    /\ InitGateway
    /\ fn_call \in [op : {"validate_structure"}, sections : SeqsUpTo(TitlePool, MaxSections)]
    /\ fn_result = NoResult

NextRules == ValidateStructure

\* validate_structure on every list of at most MaxSections titles of the pool
SpecRules == InitRules /\ [][NextRules]_vars

(***************************************************************************)
(* Claims about ATSRules                                                   *)
(***************************************************************************)
StructureChecked ==
    /\ fn_call.op = "validate_structure"
    /\ fn_result.kind = "returned"

\* no title of the list matches category c (the c-th required section, whose accepted
\* titles are the c-th entry of section_titles) after normalization
CategoryMissing(c, sections) ==
    ~VariantMatches(c, [k \in DOMAIN sections |-> normalize_section_title(sections[k])])

IssuesFor(c, issues) ==
    Cardinality({k \in DOMAIN issues : issues[k] = MissingPrefix \o required_sections[c]})

\* C11: validate_structure checks all four required categories (contact, experience,
\* education, skills): it reports exactly one issue for each category that no input title
\* matches after normalization and none for the others, and valid is true iff no category
\* is missing.
C11_AllFourCategoriesChecked ==
    StructureChecked =>
        /\ \A c \in DOMAIN required_sections :
               IssuesFor(c, fn_result.value.issues) =
                   IF CategoryMissing(c, fn_call.sections) THEN 1 ELSE 0
        /\ fn_result.value.valid <=>
               \A c \in DOMAIN required_sections : ~CategoryMissing(c, fn_call.sections)

\* what the code does: a list with education and skills titles but neither a contact nor an
\* experience title has been validated
C11_OnlyEducationAndSkills ==
    /\ StructureChecked
    /\ CategoryMissing(1, fn_call.sections)
    /\ CategoryMissing(2, fn_call.sections)
    /\ ~CategoryMissing(3, fn_call.sections)
    /\ ~CategoryMissing(4, fn_call.sections)
    /\ fn_result.value = [valid |-> TRUE, issues |-> <<>>]

(***************************************************************************)
(* CVMatcher (agents/primary_agents/cv_matcher.py)                         *)
(*                                                                         *)
(* Scores are kept in hundredths of a point (100.00 is 10000), the         *)
(* unrounded overall score in thousandths.  The analyses are the mappings  *)
(* the two analyzers return.  overall_match.confidence and recommendations *)
(* are computed from the same analyses by methods that catch their own     *)
(* exceptions and feed neither the score nor the level; they are not part  *)
(* of the modelled result.                                                 *)
(***************************************************************************)
\* matching_weights, in tenths
matching_weights ==
    [required_skills |-> 4, experience |-> 3, education |-> 2, soft_skills |-> 1]

\* a value that is not a mapping where the matcher calls .get on it
Malformed == [malformed |-> TRUE]

IsMapping(x) == "malformed" \notin DOMAIN x

ToSet(list) == {list[i] : i \in DOMAIN list}

\* int(digits) for a sequence of digit characters
RECURSIVE ParseInt(_)
ParseInt(digits) ==
    IF digits = <<>> THEN 0
    ELSE 10 * ParseInt(SubSeq(digits, 1, Len(digits) - 1))
         + (CHOOSE d \in 0..9 : Digits[d + 1] = digits[Len(digits)])

\* _extract_years: an int as it is, the digits of a str (0 when it has none)
extract_years(value) ==
    IF value.type = "int" THEN value.value
    ELSE LET digits == SelectSeq(value.text, LAMBDA c : c \in Range(Digits))
         IN  IF digits # <<>> THEN ParseInt(digits) ELSE 0

\* round(required_score * 0.7 + preferred_score * 0.3, 2) for the scores rn/rd and pn/pd
total_score_equal(rn, rd, pn, pd) ==
    RoundHundredths(5 * rn * pd + 5 * pn * rd, 10 * rd * pd)

total_score(rn, rd, pn, pd) ==
    RoundHundredths(7 * rn * pd + 3 * pn * rd, 10 * rd * pd)

\* _calculate_skills_match: the recalls 100 * |matches| / |set| (100 for an empty set)
\* weighted 0.7 and 0.3, rounded
calculate_skills_match(cv_analysis, job_analysis) ==
    IF ~IsMapping(job_analysis.requirements) \/ ~IsMapping(cv_analysis.skills)
    THEN [score |-> 0, matched_required |-> {}, matched_preferred |-> {},
          missing_required |-> {}, missing_preferred |-> {}]
    ELSE LET required_skills == ToSet(job_analysis.requirements.required_skills)
             preferred_skills == ToSet(job_analysis.requirements.preferred_skills)
             cv_skills == ToSet(cv_analysis.skills.technical_skills)
             required_matches == cv_skills \cap required_skills
             preferred_matches == cv_skills \cap preferred_skills
             \* required_score and preferred_score as fractions rn/rd and pn/pd
             rn == IF required_skills = {} THEN 100 ELSE Cardinality(required_matches) * 100
             rd == IF required_skills = {} THEN 1 ELSE Cardinality(required_skills)
             pn == IF preferred_skills = {} THEN 100 ELSE Cardinality(preferred_matches) * 100
             pd == IF preferred_skills = {} THEN 1 ELSE Cardinality(preferred_skills)
         IN  [score |-> total_score(rn, rd, pn, pd),
              matched_required |-> required_matches,
              matched_preferred |-> preferred_matches,
              missing_required |-> required_skills \ cv_skills,
              missing_preferred |-> preferred_skills \ cv_skills]

\* the score of _calculate_experience_match and _calculate_education_match: 100 when
\* nothing is required or the CV reaches it, else the ratio as a percentage, rounded
RatioScore(have, required) ==
    IF required = 0 THEN 10000
    ELSE IF have >= required THEN 10000
    ELSE RoundHundredths(have * 100, required)

calculate_experience_match(cv_analysis, job_analysis) ==
    IF ~IsMapping(job_analysis.requirements)
    THEN [score |-> 0, cv_years |-> 0, required_years |-> 0, meets_requirement |-> FALSE]
    ELSE LET cv_years == extract_years(cv_analysis.experience.years)
             required_years == extract_years(job_analysis.requirements.experience)
         IN  [score |-> RatioScore(cv_years, required_years),
              cv_years |-> cv_years,
              required_years |-> required_years,
              meets_requirement |-> cv_years >= required_years]

\* education_levels, in insertion order
education_levels ==
    <<[level |-> <<"p","h","d">>, score |-> 4],
      [level |-> <<"d","o","c","t","o","r","a","t","e">>, score |-> 4],
      [level |-> <<"m","a","s","t","e","r">>, score |-> 3],
      [level |-> <<"b","a","c","h","e","l","o","r">>, score |-> 2],
      [level |-> <<"a","s","s","o","c","i","a","t","e">>, score |-> 1],
      [level |-> <<"h","i","g","h"," ","s","c","h","o","o","l">>, score |-> 0]>>

Max(a, b) == IF a >= b THEN a ELSE b

\* the highest level whose name occurs in the text
RECURSIVE HighestLevel(_, _)
HighestLevel(text, i) ==
    IF i = 0 THEN 0
    ELSE IF Contains(education_levels[i].level, text)
         THEN Max(HighestLevel(text, i - 1), education_levels[i].score)
         ELSE HighestLevel(text, i - 1)

calculate_education_match(cv_analysis, job_analysis) ==
    IF ~IsMapping(job_analysis.requirements)
    THEN [score |-> 0, cv_level |-> 0, required_level |-> 0, meets_requirement |-> FALSE,
          cv_education |-> <<>>, required_education |-> <<>>]
    ELSE LET required_edu == [i \in DOMAIN job_analysis.requirements.education |->
                                 lower(job_analysis.requirements.education[i])]
             cv_edu == [i \in DOMAIN cv_analysis.education |-> lower(cv_analysis.education[i])]
             required_level == HighestLevel(required_edu, Len(education_levels))
             cv_level == HighestLevel(cv_edu, Len(education_levels))
         IN  [score |-> RatioScore(cv_level, required_level),
              cv_level |-> cv_level,
              required_level |-> required_level,
              meets_requirement |-> cv_level >= required_level,
              cv_education |-> cv_edu,
              required_education |-> required_edu]

\* the unrounded overall score, in thousandths
match_score_even(skills, experience, education) ==
    skills * matching_weights.required_skills
    + experience * matching_weights.experience
    + education * (matching_weights.education + matching_weights.soft_skills)

match_score(skills, experience, education) ==
    skills * matching_weights.required_skills
    + experience * matching_weights.experience
    + education * matching_weights.education

\* _get_match_level of the score num/den
get_match_level(num, den) ==
    IF num >= 90 * den THEN "Excellent Match"
    ELSE IF num >= 75 * den THEN "Strong Match"
    ELSE IF num >= 60 * den THEN "Good Match"
    ELSE IF num >= 40 * den THEN "Partial Match"
    ELSE "Low Match"

\* match_cv_to_job once both analyzers have returned their analyses
match_cv_to_job(cv_analysis, job_analysis) ==
    LET skills_match == calculate_skills_match(cv_analysis, job_analysis)
        experience_match == calculate_experience_match(cv_analysis, job_analysis)
        education_match == calculate_education_match(cv_analysis, job_analysis)
        score == match_score(skills_match.score, experience_match.score,
                             education_match.score)
    IN  [overall_match |->
             [score |-> RoundHundredths(score, 1000),
              match_level |-> get_match_level(score, 1000)],
         skills_match |-> skills_match,
         experience_match |-> experience_match,
         education_match |-> education_match]

\* skill names the analyzers may report
SkillNames == <<"python", "django", "react", "aws">>

\* distinct skill names in play
MaxSkills == 2

\* years of experience asked for or held
MaxYears == 3

SkillPool == {SkillNames[i] : i \in 1..MaxSkills}

\* skill lists as the analyzers may return them, repeats and any order included
SkillLists == SeqsUpTo(SkillPool, MaxSkills)

\* one list for each set of skills
SortedSkillLists ==
    {SelectSeq(SubSeq(SkillNames, 1, MaxSkills), LAMBDA s : s \in S) : S \in SUBSET SkillPool}

\* a years value: an int, or the str "2+ years"
YearsValues ==
    {[type |-> "int", value |-> n] : n \in 0..MaxYears}
    \cup {[type |-> "str", text |-> <<"2","+"," ","y","e","a","r","s">>]}

\* education texts: none, Bachelor of Science, Master's degree, PhD in Physics
EducationTexts ==
    {<<>>,
     <<"B","a","c","h","e","l","o","r"," ","o","f"," ","S","c","i","e","n","c","e">>,
     <<"M","a","s","t","e","r","'","s"," ","d","e","g","r","e","e">>,
     <<"P","h","D"," ","i","n"," ","P","h","y","s","i","c","s">>}

CvAnalyses(lists) ==
    [skills : [technical_skills : lists] \cup {Malformed},
     experience : [years : YearsValues],
     education : EducationTexts]

JobAnalyses(lists) ==
    [requirements :
         [required_skills : lists, preferred_skills : lists,
          experience : YearsValues, education : EducationTexts]
         \cup {Malformed}]

NoYears == [type |-> "int", value |-> 0]

\* the analyses _calculate_skills_match reads: every skill list, no experience or education
SkillsCalls ==
    {[op |-> "_calculate_skills_match",
      cv_analysis |-> [skills |-> s, experience |-> [years |-> NoYears], education |-> <<>>],
      job_analysis |-> [requirements |-> r]] :
        s \in [technical_skills : SkillLists] \cup {Malformed},
        r \in [required_skills : SkillLists, preferred_skills : SkillLists,
               experience : {NoYears}, education : {<<>>}]
              \cup {Malformed}}

MatchCalls ==
    [op : {"match_cv_to_job"},
     cv_analysis : CvAnalyses(SortedSkillLists),
     job_analysis : JobAnalyses(SortedSkillLists)]

CalculateSkillsMatch ==
    /\ fn_call.op = "_calculate_skills_match"
    /\ fn_result = NoResult
    /\ fn_result' = Returned(calculate_skills_match(fn_call.cv_analysis, fn_call.job_analysis))
    /\ UNCHANGED <<fn_call, wf_vars, gw_vars>>

MatchCvToJob ==
    /\ fn_call.op = "match_cv_to_job"
    /\ fn_result = NoResult
    /\ fn_result' = Returned(match_cv_to_job(fn_call.cv_analysis, fn_call.job_analysis))
    /\ UNCHANGED <<fn_call, wf_vars, gw_vars>>

InitMatcher ==
    /\ InitWorkflow
    /\ InitGateway
    /\ fn_call \in SkillsCalls \cup MatchCalls
    /\ fn_result = NoResult

NextMatcher ==
    \/ CalculateSkillsMatch
    \/ MatchCvToJob

\* one call of _calculate_skills_match or of match_cv_to_job on bounded analyses
SpecMatcher == InitMatcher /\ [][NextMatcher]_vars

(***************************************************************************)
(* Claims about CVMatcher                                                  *)
(***************************************************************************)
Matched ==
    /\ fn_call.op = "match_cv_to_job"
    /\ fn_result.kind = "returned"

\* the band of a reported score (in hundredths), lower bounds inclusive
BandOf(score) ==
    IF score >= 9000 THEN "Excellent Match"
    ELSE IF score >= 7500 THEN "Strong Match"
    ELSE IF score >= 6000 THEN "Good Match"
    ELSE IF score >= 4000 THEN "Partial Match"
    ELSE "Low Match"

\* C12: in every result of match_cv_to_job, overall_match.match_level is the band of the
\* overall_match.score reported in the same result (>= 90 Excellent, >= 75 Strong,
\* >= 60 Good, >= 40 Partial, otherwise Low).
C12_LevelIsBandOfReportedScore ==
    Matched =>
        fn_result.value.overall_match.match_level =
            BandOf(fn_result.value.overall_match.score)

\* what the code does: a result reporting score 60.0 with level "Partial Match"
C12_SixtyReportedAsPartial ==
    /\ Matched
    /\ fn_result.value.overall_match.score = 6000
    /\ fn_result.value.overall_match.match_level = "Partial Match"

\* C13: the overall match score is 0.4*skills + 0.3*experience + 0.2*education rounded to
\* 2 decimals; with all three component scores at 100 it is exactly 90, it never exceeds
\* 90, and "Excellent Match" is returned only when all three components are 100.
C13_OverallScoreCapsAtNinety ==
    Matched =>
        LET r == fn_result.value
            skills == r.skills_match.score
            experience == r.experience_match.score
            education == r.education_match.score
            AllPerfect == skills = 10000 /\ experience = 10000 /\ education = 10000
        IN  /\ {skills, experience, education} \subseteq 0..10000
            /\ r.overall_match.score =
                   RoundHundredths(4 * skills + 3 * experience + 2 * education, 1000)
            /\ AllPerfect => r.overall_match.score = 9000
            /\ r.overall_match.score <= 9000
            /\ r.overall_match.match_level = "Excellent Match" => AllPerfect

\* a perfect match: every requirement met, reported as 90.0 and "Excellent Match"
C13_Witness ==
    /\ Matched
    /\ IsMapping(fn_call.job_analysis.requirements)
    /\ fn_call.job_analysis.requirements.required_skills # <<>>
    /\ fn_result.value.skills_match.score = 10000
    /\ fn_result.value.experience_match.score = 10000
    /\ fn_result.value.education_match.score = 10000
    /\ fn_result.value.overall_match = [score |-> 9000, match_level |-> "Excellent Match"]

SkillsMatched ==
    /\ fn_call.op = "_calculate_skills_match"
    /\ fn_result.kind = "returned"
    /\ IsMapping(fn_call.cv_analysis.skills)
    /\ IsMapping(fn_call.job_analysis.requirements)

\* 100 * |cv /\ wanted| / |wanted| as a fraction <<numerator, denominator>>, 100 for an
\* empty wanted set
Recall(cv, wanted) ==
    IF wanted = {} THEN <<100, 1>>
    ELSE <<100 * Cardinality(cv \cap wanted), Cardinality(wanted)>>

\* C14: _calculate_skills_match returns score = 0.7*required_recall + 0.3*preferred_recall
\* (to 2 decimals), each recall being 100*|CV skills /\ requirement set|/|requirement set|
\* and 100 for an empty requirement set; the score lies in 0..100, and matched_required
\* and missing_required partition the required set.
C14_SkillsRecallScore ==
    SkillsMatched =>
        LET r == fn_result.value
            cv == ToSet(fn_call.cv_analysis.skills.technical_skills)
            required == ToSet(fn_call.job_analysis.requirements.required_skills)
            preferred == ToSet(fn_call.job_analysis.requirements.preferred_skills)
            rr == Recall(cv, required)
            pr == Recall(cv, preferred)
        IN  /\ r.score = RoundHundredths(7 * rr[1] * pr[2] + 3 * pr[1] * rr[2],
                                         10 * rr[2] * pr[2])
            /\ r.score \in 0..10000
            /\ r.matched_required \cup r.missing_required = required
            /\ r.matched_required \cap r.missing_required = {}

\* half the required skills and half the preferred skills are on the CV, listed with a repeat
C14_Witness ==
    /\ SkillsMatched
    /\ Len(fn_call.cv_analysis.skills.technical_skills)
           > Cardinality(ToSet(fn_call.cv_analysis.skills.technical_skills))
    /\ fn_result.value.matched_required # {}
    /\ fn_result.value.missing_required # {}
    /\ fn_result.value.missing_preferred = {}
    /\ fn_result.value.score = 6500

(***************************************************************************)
(* QualityMetrics (core/quality_metrics.py)                                *)
(*                                                                         *)
(* Metric values are kept in thousandths of a point (75.000 is 75000) and  *)
(* weights in hundredths, so a component score is in units of 1/100000;    *)
(* reported totals are in hundredths.                                      *)
(***************************************************************************)
\* score_weights, each domain's weights in insertion order, in hundredths
score_weights ==
    [cv |-> <<[metric |-> "content_relevance", weight |-> 30],
           [metric |-> "skills_match", weight |-> 25],
           [metric |-> "experience_quality", weight |-> 25],
           [metric |-> "format_compliance", weight |-> 20]>>,
     letter |-> <<[metric |-> "customization", weight |-> 30],
           [metric |-> "content_relevance", weight |-> 30],
           [metric |-> "professional_tone", weight |-> 20],
           [metric |-> "formatting", weight |-> 20]>>,
     ats |-> <<[metric |-> "keyword_optimization", weight |-> 30],
           [metric |-> "format_compliance", weight |-> 30],
           [metric |-> "section_structure", weight |-> 20],
           [metric |-> "content_clarity", weight |-> 20]>>]

quality_thresholds ==
    [cv_minimum_score |-> 75, letter_minimum_score |-> 75,
     ats_minimum_score |-> 75, overall_minimum_score |-> 75]

\* the keys of the scores dict of calculate_cv_score, calculate_letter_score and
\* calculate_ats_score in insertion order, each with the metric it reads:
\* cv: content_score, skills_score, experience_score, format_score
\* letter: customization_score, content_score, tone_score, format_score
\* ats: keyword_score, format_score, structure_score, clarity_score
component_keys ==
    [cv |-> <<[key |-> <<"c","o","n","t","e","n","t","_","s","c","o","r","e">>, metric |-> "content_relevance"],
           [key |-> <<"s","k","i","l","l","s","_","s","c","o","r","e">>, metric |-> "skills_match"],
           [key |-> <<"e","x","p","e","r","i","e","n","c","e","_","s","c","o","r","e">>, metric |-> "experience_quality"],
           [key |-> <<"f","o","r","m","a","t","_","s","c","o","r","e">>, metric |-> "format_compliance"]>>,
     letter |-> <<[key |-> <<"c","u","s","t","o","m","i","z","a","t","i","o","n","_","s","c","o","r","e">>, metric |-> "customization"],
           [key |-> <<"c","o","n","t","e","n","t","_","s","c","o","r","e">>, metric |-> "content_relevance"],
           [key |-> <<"t","o","n","e","_","s","c","o","r","e">>, metric |-> "professional_tone"],
           [key |-> <<"f","o","r","m","a","t","_","s","c","o","r","e">>, metric |-> "formatting"]>>,
     ats |-> <<[key |-> <<"k","e","y","w","o","r","d","_","s","c","o","r","e">>, metric |-> "keyword_optimization"],
           [key |-> <<"f","o","r","m","a","t","_","s","c","o","r","e">>, metric |-> "format_compliance"],
           [key |-> <<"s","t","r","u","c","t","u","r","e","_","s","c","o","r","e">>, metric |-> "section_structure"],
           [key |-> <<"c","l","a","r","i","t","y","_","s","c","o","r","e">>, metric |-> "content_clarity"]>>]

Domains == <<"cv", "letter", "ats">>

MinimumScore(domain) ==
    CASE domain = "cv" -> quality_thresholds.cv_minimum_score
      [] domain = "letter" -> quality_thresholds.letter_minimum_score
      [] domain = "ats" -> quality_thresholds.ats_minimum_score

\* metrics.get(key, 0)
Get_full(items, key, default) == IF key \in DOMAIN items THEN items[key] ELSE 100000

Get(items, key, default) == IF key \in DOMAIN items THEN items[key] ELSE default

WeightOf(domain, metric) ==
    LET weights == score_weights[domain]
    IN  weights[CHOOSE i \in DOMAIN weights : weights[i].metric = metric].weight

RECURSIVE SumValues(_, _)
SumValues(items, n) == IF n = 0 THEN 0 ELSE items[n].value + SumValues(items, n - 1)

FnRaised(exception) == [kind |-> "raised", exception |-> exception]

\* calculate_cv_score, calculate_letter_score, calculate_ats_score: the same body over the
\* domain's keys and weights; None has no .get, and the except clause re-raises
calculate_score(domain, metrics) ==
    IF metrics.type = "None" THEN FnRaised("AttributeError")
    ELSE LET keys == component_keys[domain]
             scores == [i \in DOMAIN keys |->
                           [key |-> keys[i].key,
                            value |-> Get(metrics.items, keys[i].metric, 0)
                                      * WeightOf(domain, keys[i].metric)]]
             total == SumValues(scores, Len(scores))
         IN  Returned([total_score |-> RoundHundredths(total, 100000),
                       component_scores |-> scores,
                       meets_threshold |-> total >= MinimumScore(domain) * 100000])

\* the mutant of the weights dict: the ATS weight raised to 0.4
overall_weights_heavy == [cv |-> 4, letter |-> 3, ats |-> 4]

\* the weights dict of calculate_overall_quality, in tenths
overall_weights == [cv |-> 4, letter |-> 3, ats |-> 3]

\* calculate_overall_quality on scores in hundredths
calculate_overall_quality(cv_score, letter_score, ats_score) ==
    LET overall_score == cv_score * overall_weights.cv
                         + letter_score * overall_weights.letter
                         + ats_score * overall_weights.ats
    IN  [overall_score |-> RoundHundredths(overall_score, 1000),
         component_weights |-> overall_weights,
         meets_threshold |-> overall_score >= quality_thresholds.overall_minimum_score * 1000,
         component_scores |->
             [cv_score |-> cv_score, letter_score |-> letter_score, ats_score |-> ats_score]]

\* min(scores.items(), key=lambda x: x[1])[0]: the key of the first smallest value
LowestLast(items) ==
    items[CHOOSE i \in DOMAIN items :
              /\ \A j \in DOMAIN items : items[i].value <= items[j].value
              /\ \A j \in DOMAIN items : j > i => items[j].value > items[i].value].key

Lowest(items) ==
    items[CHOOSE i \in DOMAIN items :
              /\ \A j \in DOMAIN items : items[i].value <= items[j].value
              /\ \A j \in DOMAIN items : j < i => items[j].value > items[i].value].key

\* "Improve CV ", "Improve letter ", "Improve ATS "
PriorityPrefix ==
    [cv |-> <<"I","m","p","r","o","v","e"," ","C","V"," ">>,
     letter |-> <<"I","m","p","r","o","v","e"," ","l","e","t","t","e","r"," ">>,
     ats |-> <<"I","m","p","r","o","v","e"," ","A","T","S"," ">>]

Suffix == <<"_","s","c","o","r","e">>

\* get_improvement_priorities: the three checks in order; quality_assessment holds the
\* cv_assessment, letter_assessment and ats_assessment under cv, letter, ats
RECURSIVE PrioritiesFrom(_, _)
PrioritiesFrom(quality_assessment, i) ==
    IF i > Len(Domains) THEN <<>>
    ELSE LET assessment == quality_assessment[Domains[i]]
             lowest == Lowest(assessment.component_scores)
         IN  (IF ~assessment.meets_threshold
              THEN <<PriorityPrefix[Domains[i]] \o replace(lowest, Suffix, <<>>)>>
              ELSE <<>>)
             \o PrioritiesFrom(quality_assessment, i + 1)

get_improvement_priorities(quality_assessment) == PrioritiesFrom(quality_assessment, 1)

(***************************************************************************)
(* Coordinator (agents/coordinator.py): aggregation                        *)
(***************************************************************************)
\* Coordinator.quality_weights, in tenths
\* the mutant of quality_weights: the cv weight lowered to 0.3
quality_weights_light == [ats_compliance |-> 4, cv_quality |-> 3, letter_quality |-> 2]

quality_weights_swapped == [ats_compliance |-> 3, cv_quality |-> 4, letter_quality |-> 3]

quality_weights == [ats_compliance |-> 4, cv_quality |-> 4, letter_quality |-> 2]

\* Coordinator.quality_thresholds
coordinator_thresholds ==
    [ats_compliance |-> 75, cv_quality |-> 75, letter_quality |-> 75, overall_quality |-> 75]

\* _aggregate_results on agent results whose overall_score is in hundredths
aggregate_results(ats_results, cv_results, letter_results) ==
    LET ats_score == ats_results.overall_score * quality_weights.ats_compliance
        cv_score == cv_results.overall_score * quality_weights.cv_quality
        letter_score == letter_results.overall_score * quality_weights.letter_quality
    IN  [overall_score |-> RoundHundredths(ats_score + cv_score + letter_score, 1000),
         component_scores |->
             [ats_compliance |-> ats_results.overall_score,
              cv_quality |-> cv_results.overall_score,
              letter_quality |-> letter_results.overall_score]]

(***************************************************************************)
(* Calls of the scoring methods                                            *)
(***************************************************************************)
\* metric values, in thousandths: 0, 50, 74.999, 75, 100
MetricValues == {0, 50000, 74999, 75000, 100000}

\* a metrics argument: a dict over any of the domain's metric names, with or without a
\* key no method reads, or None
MetricsArguments(domain) ==
    LET known == {score_weights[domain][i].metric : i \in DOMAIN score_weights[domain]}
        dicts == UNION {[K -> MetricValues] : K \in SUBSET known}
    IN  {[type |-> "dict", items |-> d] : d \in dicts}
        \cup {[type |-> "dict", items |-> d @@ ("unknown_metric" :> 90000)] : d \in dicts}
        \cup {[type |-> "None"]}

ScoreCalls ==
    {[op |-> "calculate_score", domain |-> Domains[i], metrics |-> m] :
        i \in DOMAIN Domains, m \in UNION {MetricsArguments(Domains[j]) : j \in DOMAIN Domains}}

\* component values of a hand-written assessment
ComponentValues == {60, 70}

Assessments(domain) ==
    {[meets_threshold |-> m,
      component_scores |->
          [i \in DOMAIN component_keys[domain] |->
              [key |-> component_keys[domain][i].key, value |-> v[i]]]] :
        m \in BOOLEAN, v \in [DOMAIN component_keys[domain] -> ComponentValues]}

PriorityCalls ==
    [op : {"get_improvement_priorities"},
     quality_assessment :
         [cv : Assessments("cv"), letter : Assessments("letter"), ats : Assessments("ats")]]

\* domain-level scores, in points
IntegerScores == {0, 1, 2, 49, 50, 51, 74, 75, 76, 99, 100}

\* domain-level scores, in hundredths: the integer ones, 74.99 and 75.01
Scores == {100 * n : n \in IntegerScores} \cup {7499, 7501}

OverallCalls ==
    [op : {"calculate_overall_quality"},
     cv_score : Scores, letter_score : Scores, ats_score : Scores]

AggregateCalls ==
    [op : {"_aggregate_results"},
     ats_results : [overall_score : Scores],
     cv_results : [overall_score : Scores],
     letter_results : [overall_score : Scores]]

CalculateScore(domain) ==
    /\ fn_call.op = "calculate_score"
    /\ fn_call.domain = domain
    /\ fn_result = NoResult
    /\ fn_result' = calculate_score(domain, fn_call.metrics)
    /\ UNCHANGED <<fn_call, wf_vars, gw_vars>>

GetImprovementPriorities ==
    /\ fn_call.op = "get_improvement_priorities"
    /\ fn_result = NoResult
    /\ fn_result' = Returned(get_improvement_priorities(fn_call.quality_assessment))
    /\ UNCHANGED <<fn_call, wf_vars, gw_vars>>

CalculateOverallQuality ==
    /\ fn_call.op = "calculate_overall_quality"
    /\ fn_result = NoResult
    /\ fn_result' = Returned(calculate_overall_quality(fn_call.cv_score, fn_call.letter_score,
                                                       fn_call.ats_score))
    /\ UNCHANGED <<fn_call, wf_vars, gw_vars>>

AggregateResults ==
    /\ fn_call.op = "_aggregate_results"
    /\ fn_result = NoResult
    /\ fn_result' = Returned(aggregate_results(fn_call.ats_results, fn_call.cv_results,
                                               fn_call.letter_results))
    /\ UNCHANGED <<fn_call, wf_vars, gw_vars>>

InitQuality ==
    /\ InitWorkflow
    /\ InitGateway
    /\ fn_call \in ScoreCalls \cup PriorityCalls \cup OverallCalls \cup AggregateCalls
    /\ fn_result = NoResult

NextQuality ==
    \/ \E i \in DOMAIN Domains : CalculateScore(Domains[i])
    \/ GetImprovementPriorities
    \/ CalculateOverallQuality
    \/ AggregateResults

\* one call of a QualityMetrics method or of Coordinator._aggregate_results
SpecQuality == InitQuality /\ [][NextQuality]_vars

(***************************************************************************)
(* Claims about QualityMetrics and the Coordinator's aggregation           *)
(***************************************************************************)
PrioritiesReturned ==
    /\ fn_call.op = "get_improvement_priorities"
    /\ fn_result.kind = "returned"

\* the domains whose assessment does not meet its threshold, in the order CV, letter, ATS
FailingDomains(quality_assessment) ==
    SelectSeq(Domains, LAMBDA d : ~quality_assessment[d].meets_threshold)

\* a component key without its trailing "_score"
ComponentName(key) == SubSeq(key, 1, Len(key) - Len(Suffix))

\* the priority names the first of the components holding the lowest value
NamesFirstLowest(priority, domain, items) ==
    \E i \in DOMAIN items :
        /\ \A j \in DOMAIN items : items[i].value <= items[j].value
        /\ \A j \in 1..(i - 1) : items[j].value # items[i].value
        /\ priority = PriorityPrefix[domain] \o ComponentName(items[i].key)

\* C15: get_improvement_priorities emits exactly one priority string per domain (CV,
\* letter, ATS, in that order) whose meets_threshold is false and none for a domain that
\* meets it; the string names the component with the lowest value in that domain's
\* component_scores, the first in iteration order winning ties.
C15_OnePriorityPerFailingDomain ==
    PrioritiesReturned =>
        LET failing == FailingDomains(fn_call.quality_assessment)
            priorities == fn_result.value
        IN  /\ Len(priorities) = Len(failing)
            /\ \A k \in DOMAIN failing :
                   NamesFirstLowest(priorities[k], failing[k],
                                    fn_call.quality_assessment[failing[k]].component_scores)

\* CV and ATS fail, the letter passes although it holds the lowest values; the CV's
\* lowest value is shared by its second and third component
C15_Witness ==
    /\ PrioritiesReturned
    /\ ~fn_call.quality_assessment.cv.meets_threshold
    /\ fn_call.quality_assessment.letter.meets_threshold
    /\ ~fn_call.quality_assessment.ats.meets_threshold
    /\ LET cv == fn_call.quality_assessment.cv.component_scores
       IN  cv[1].value > cv[2].value /\ cv[2].value = cv[3].value
    /\ Len(fn_result.value) = 2
    /\ fn_result.value[1] = PriorityPrefix.cv \o <<"s","k","i","l","l","s">>

IsInteger(score) == score % 100 = 0

\* C16: calculate_overall_quality returns round(0.4*cv + 0.3*letter + 0.3*ats, 2) and
\* Coordinator._aggregate_results returns round(0.4*ats + 0.4*cv + 0.2*letter, 2); for
\* integer scores the two results on the same triple are equal iff the ATS and letter
\* scores are equal.
C16_TwoAggregations ==
    /\ (fn_call.op = "calculate_overall_quality" /\ fn_result.kind = "returned") =>
           LET cv == fn_call.cv_score
               letter == fn_call.letter_score
               ats == fn_call.ats_score
           IN  /\ fn_result.value.overall_score =
                      RoundHundredths(4 * cv + 3 * letter + 3 * ats, 1000)
               /\ (IsInteger(cv) /\ IsInteger(letter) /\ IsInteger(ats)) =>
                      (fn_result.value.overall_score =
                           aggregate_results([overall_score |-> ats], [overall_score |-> cv],
                                             [overall_score |-> letter]).overall_score
                       <=> ats = letter)
    /\ (fn_call.op = "_aggregate_results" /\ fn_result.kind = "returned") =>
           LET cv == fn_call.cv_results.overall_score
               letter == fn_call.letter_results.overall_score
               ats == fn_call.ats_results.overall_score
           IN  /\ fn_result.value.overall_score =
                      RoundHundredths(4 * ats + 4 * cv + 2 * letter, 1000)
               /\ (IsInteger(cv) /\ IsInteger(letter) /\ IsInteger(ats)) =>
                      (fn_result.value.overall_score =
                           calculate_overall_quality(cv, letter, ats).overall_score
                       <=> ats = letter)

\* ATS 75, CV 50, letter 74: the Coordinator reports 64.8 where QualityMetrics gives 64.7
C16_Witness ==
    /\ fn_call.op = "_aggregate_results"
    /\ fn_result.kind = "returned"
    /\ fn_call.ats_results.overall_score = 7500
    /\ fn_call.cv_results.overall_score = 5000
    /\ fn_call.letter_results.overall_score = 7400
    /\ fn_result.value.overall_score = 6480
    /\ calculate_overall_quality(5000, 7400, 7500).overall_score = 6470

ScoreCalled ==
    /\ fn_call.op = "calculate_score"
    /\ fn_result # NoResult

\* C18: in calculate_cv_score, calculate_letter_score and calculate_ats_score a missing
\* metric key is scored 0 (so an empty mapping, or one with only unknown keys, yields
\* total_score 0 and meets_threshold false) without raising, whereas an input that is not
\* a mapping (None) raises.
C18_MissingKeysScoreZero ==
    ScoreCalled =>
        IF fn_call.metrics.type = "None" THEN fn_result.kind = "raised"
        ELSE LET keys == component_keys[fn_call.domain]
                 items == fn_call.metrics.items
                 r == fn_result.value
             IN  /\ fn_result.kind = "returned"
                 /\ \A i \in DOMAIN keys :
                        keys[i].metric \notin DOMAIN items => r.component_scores[i].value = 0
                 /\ (\A i \in DOMAIN keys : keys[i].metric \notin DOMAIN items) =>
                        r.total_score = 0 /\ ~r.meets_threshold

\* calculate_cv_score on a mapping whose only key is one it does not read
C18_Witness ==
    /\ ScoreCalled
    /\ fn_call.domain = "cv"
    /\ fn_call.metrics.type = "dict"
    /\ DOMAIN fn_call.metrics.items = {"unknown_metric"}
    /\ fn_result.kind = "returned"
    /\ fn_result.value.total_score = 0
    /\ ~fn_result.value.meets_threshold

(***************************************************************************)
(* The quality agents (agents/quality_agents/) and                         *)
(* Coordinator.assess_application_quality                                  *)
(*                                                                         *)
(* Each sub-dimension asks the gateway for one structured completion; the  *)
(* reply is either a filled object or the schema default of the gateway.   *)
(* A filled reply carries one value in all its number fields, so the       *)
(* averages are exact.  Scores are in hundredths of a point.               *)
(***************************************************************************)
\* output_schema of each structured completion, by task_type: ATSValidator
\* (ats_validation, keyword_validation, content_validation), CVEvaluator (cv_evaluation,
\* achievements_evaluation, experience_evaluation, skills_evaluation), LetterEvaluator
\* (content_evaluation, tone_evaluation, customization_evaluation, format_evaluation)
TaskSchemas ==
    [ats_validation |->
           [is_clean_format |-> "boolean",
            has_proper_spacing |-> "boolean",
            uses_standard_sections |-> "boolean",
            formatting_issues |-> "list",
            format_score |-> "number"],
     keyword_validation |->
           [keyword_matches |-> "list",
            missing_keywords |-> "list",
            keyword_placement_score |-> "number",
            optimization_level |-> "string"],
     content_validation |->
           [content_clarity |-> "number",
            bullet_point_quality |-> "number",
            achievement_focus |-> "number",
            content_issues |-> "list"],
     cv_evaluation |->
           [clarity_score |-> "number",
            conciseness_score |-> "number",
            professionalism_score |-> "number",
            content_issues |-> "list",
            strong_points |-> "list"],
     achievements_evaluation |->
           [quantification_score |-> "number",
            impact_score |-> "number",
            relevance_score |-> "number",
            weak_achievements |-> "list",
            strong_achievements |-> "list"],
     experience_evaluation |->
           [progression_clarity |-> "number",
            role_description_quality |-> "number",
            responsibility_clarity |-> "number",
            improvement_areas |-> "list",
            effective_points |-> "list"],
     skills_evaluation |->
           [organization_score |-> "number",
            relevance_score |-> "number",
            specificity_score |-> "number",
            missing_key_skills |-> "list",
            well_presented_skills |-> "list"],
     content_evaluation |->
           [relevance_score |-> "number",
            key_requirements_addressed |-> "list",
            missing_requirements |-> "list",
            effectiveness |-> "number"],
     tone_evaluation |->
           [tone_score |-> "number",
            language_quality |-> "number",
            professionalism_issues |-> "list",
            strong_elements |-> "list"],
     customization_evaluation |->
           [customization_score |-> "number",
            company_specific_content |-> "list",
            generic_elements |-> "list",
            personalization_level |-> "number"],
     format_evaluation |->
           [structure_score |-> "number",
            formatting_score |-> "number",
            structure_issues |-> "list",
            format_strengths |-> "list"]]

\* the number fields each sub-dimension reads
ScoreFields ==
    [ats_validation |-> <<"format_score">>,
     keyword_validation |-> <<"keyword_placement_score">>,
     content_validation |-> <<"content_clarity", "bullet_point_quality", "achievement_focus">>,
     cv_evaluation |-> <<"clarity_score", "conciseness_score", "professionalism_score">>,
     achievements_evaluation |-> <<"quantification_score", "impact_score", "relevance_score">>,
     experience_evaluation |-> <<"progression_clarity", "role_description_quality", "responsibility_clarity">>,
     skills_evaluation |-> <<"organization_score", "relevance_score", "specificity_score">>,
     content_evaluation |-> <<"relevance_score", "effectiveness">>,
     tone_evaluation |-> <<"tone_score", "language_quality">>,
     customization_evaluation |-> <<"customization_score", "personalization_level">>,
     format_evaluation |-> <<"structure_score", "formatting_score">>]

QualityTasks == DOMAIN TaskSchemas

Number(value) == [type |-> "number", value |-> value]

\* a reply with every field filled: numbers at the given value, booleans true, one-element
\* lists, non-empty strings
FilledReply(task, value) ==
    [k \in DOMAIN TaskSchemas[task] |->
        CASE TaskSchemas[task][k] = "number" -> Number(value)
          [] TaskSchemas[task][k] = "boolean" -> [type |-> "bool", truth |-> TRUE]
          [] TaskSchemas[task][k] = "list" -> [type |-> "list", len |-> 1]
          [] OTHER -> [type |-> "str", len |-> 1]]

IsNumber(v) == v.type = "number"

RECURSIVE SumFields(_, _, _)
SumFields(reply, fields, n) ==
    IF n = 0 THEN 0 ELSE reply[fields[n]].value + SumFields(reply, fields, n - 1)

\* the sub-evaluations of CVEvaluator and LetterEvaluator and ATSValidator._validate_content:
\* the mean of the number fields; "" + "" is "", "" / n raises TypeError, and the except
\* clause returns score 0
AverageScore(task, reply) ==
    LET fields == ScoreFields[task]
    IN  IF \A i \in DOMAIN fields : IsNumber(reply[fields[i]])
        THEN Number(SumFields(reply, fields, Len(fields)) \div Len(fields))
        ELSE Number(0)

\* ATSValidator._validate_format: the reply's fields as they are, no operation on them
ats_validate_format(reply) ==
    [score |-> reply.format_score, passes_validation |-> reply.is_clean_format]

\* ATSValidator._validate_keywords: "" >= 70 raises TypeError, the except clause returns
\* score 0
ats_validate_keywords(reply) ==
    IF IsNumber(reply.keyword_placement_score)
    THEN [score |-> reply.keyword_placement_score,
          passes_validation |-> reply.keyword_placement_score.value >= 7000]
    ELSE [score |-> Number(0), passes_validation |-> FALSE]

\* ATSValidator._validate_structure: 100 when ATSRules.validate_structure finds
\* cv_text.split('\n\n') valid, 50 otherwise; the verdict of validate_structure, modelled
\* above, is an input here
ats_validate_structure(structure_valid) ==
    [score |-> Number(IF structure_valid THEN 10000 ELSE 5000),
     passes_validation |-> structure_valid]

\* ATSValidator._validate_content
ats_validate_content(reply) ==
    LET average_score == AverageScore("content_validation", reply)
    IN  [score |-> average_score, passes_validation |-> average_score.value >= 7000]

\* ATSValidator.validation_weights, in tenths
validation_weights ==
    [format_compliance |-> 3, keyword_optimization |-> 3,
     section_structure |-> 2, content_clarity |-> 2]

\* ATSValidator._calculate_overall_score: score * weight on each of the four results, outside
\* any try of the validator; a str score times a float raises TypeError
ats_calculate_overall_score(validation_results) ==
    IF \E k \in DOMAIN validation_results : ~IsNumber(validation_results[k].score)
    THEN FnRaised("TypeError")
    ELSE Returned(RoundHundredths(
             validation_results.format.score.value * validation_weights.format_compliance
             + validation_results.keywords.score.value * validation_weights.keyword_optimization
             + validation_results.structure.score.value * validation_weights.section_structure
             + validation_results.content.score.value * validation_weights.content_clarity,
             1000))

\* ATSValidator.validate_cv: the four checks, the overall score; an exception is logged and
\* raised again
validate_cv(structure_valid, replies) ==
    LET validation_results ==
            [format |-> ats_validate_format(replies.ats_validation),
             keywords |-> ats_validate_keywords(replies.keyword_validation),
             structure |-> ats_validate_structure(structure_valid),
             content |-> ats_validate_content(replies.content_validation)]
        overall_score == ats_calculate_overall_score(validation_results)
    IN  IF overall_score.kind = "raised" THEN overall_score
        ELSE Returned([overall_score |-> overall_score.value,
                       is_ats_compliant |-> overall_score.value >= 7500,
                       validation_details |->
                           [format_validation |-> validation_results.format,
                            keyword_validation |-> validation_results.keywords,
                            structure_validation |-> validation_results.structure,
                            content_validation |-> validation_results.content]])

\* CVEvaluator.evaluation_weights, in hundredths
cv_evaluation_weights ==
    [content_quality |-> 30, achievements |-> 25,
     experience_presentation |-> 25, skills_presentation |-> 20]

\* CVEvaluator.evaluate_cv with CVEvaluator._calculate_overall_score, for industry None (no
\* industry alignment completion)
evaluate_cv(replies) ==
    LET content_eval == [score |-> AverageScore("cv_evaluation", replies.cv_evaluation)]
        achievements_eval ==
            [score |-> AverageScore("achievements_evaluation", replies.achievements_evaluation)]
        experience_eval ==
            [score |-> AverageScore("experience_evaluation", replies.experience_evaluation)]
        skills_eval == [score |-> AverageScore("skills_evaluation", replies.skills_evaluation)]
    IN  [overall_score |->
             RoundHundredths(
                 content_eval.score.value * cv_evaluation_weights.content_quality
                 + achievements_eval.score.value * cv_evaluation_weights.achievements
                 + experience_eval.score.value * cv_evaluation_weights.experience_presentation
                 + skills_eval.score.value * cv_evaluation_weights.skills_presentation,
                 10000),
         evaluation_summary |->
             [content_quality |-> content_eval,
              achievements_impact |-> achievements_eval,
              experience_presentation |-> experience_eval,
              skills_relevance |-> skills_eval]]

\* LetterEvaluator.evaluation_weights, in hundredths
letter_evaluation_weights ==
    [content_relevance |-> 25, professional_tone |-> 25,
     customization |-> 25, structure_format |-> 25]

\* LetterEvaluator.evaluate_letter with LetterEvaluator._calculate_overall_score
evaluate_letter(replies) ==
    LET content_eval == [score |-> AverageScore("content_evaluation", replies.content_evaluation)]
        tone_eval == [score |-> AverageScore("tone_evaluation", replies.tone_evaluation)]
        custom_eval ==
            [score |-> AverageScore("customization_evaluation", replies.customization_evaluation)]
        format_eval == [score |-> AverageScore("format_evaluation", replies.format_evaluation)]
    IN  [overall_score |->
             RoundHundredths(
                 content_eval.score.value * letter_evaluation_weights.content_relevance
                 + tone_eval.score.value * letter_evaluation_weights.professional_tone
                 + custom_eval.score.value * letter_evaluation_weights.customization
                 + format_eval.score.value * letter_evaluation_weights.structure_format,
                 10000),
         evaluation_summary |->
             [content_relevance |-> content_eval,
              professional_tone |-> tone_eval,
              customization_level |-> custom_eval,
              structure_quality |-> format_eval]]

\* the mutant of _check_quality_standards: strict comparisons
check_quality_standards_strict(aggregated_results) ==
    LET standards_check ==
            [ats_compliance |-> aggregated_results.component_scores.ats_compliance
                                    > 100 * coordinator_thresholds.ats_compliance,
             cv_quality |-> aggregated_results.component_scores.cv_quality
                                > 100 * coordinator_thresholds.cv_quality,
             letter_quality |-> aggregated_results.component_scores.letter_quality
                                    > 100 * coordinator_thresholds.letter_quality,
             overall_quality |-> aggregated_results.overall_score
                                     > 100 * coordinator_thresholds.overall_quality]
    IN  [meets_all_standards |-> \A k \in DOMAIN standards_check : standards_check[k],
         standards_results |-> standards_check]

\* Coordinator._check_quality_standards; the scores are in hundredths, the thresholds in
\* points
check_quality_standards(aggregated_results) ==
    LET standards_check ==
            [ats_compliance |-> aggregated_results.component_scores.ats_compliance
                                    >= 100 * coordinator_thresholds.ats_compliance,
             cv_quality |-> aggregated_results.component_scores.cv_quality
                                >= 100 * coordinator_thresholds.cv_quality,
             letter_quality |-> aggregated_results.component_scores.letter_quality
                                    >= 100 * coordinator_thresholds.letter_quality,
             overall_quality |-> aggregated_results.overall_score
                                     >= 100 * coordinator_thresholds.overall_quality]
    IN  [meets_all_standards |-> \A k \in DOMAIN standards_check : standards_check[k],
         standards_results |-> standards_check]

\* Coordinator.assess_application_quality: the three agents in turn, the aggregation, the
\* report; an exception of any step is logged and raised again
assess_application_quality(structure_valid, replies) ==
    LET ats_results == validate_cv(structure_valid, replies)
        cv_results == evaluate_cv(replies)
        letter_results == evaluate_letter(replies)
        aggregated_results == aggregate_results(ats_results.value, cv_results, letter_results)
    IN  IF ats_results.kind = "raised" THEN ats_results
        ELSE Returned([overall_quality_score |-> aggregated_results.overall_score,
                       meets_quality_standards |-> check_quality_standards(aggregated_results),
                       detailed_assessment |->
                           [ats_compliance |-> ats_results.value,
                            cv_quality |-> cv_results,
                            letter_quality |-> letter_results],
                       component_scores |->
                           [ats_score |-> ats_results.value.overall_score,
                            cv_score |-> cv_results.overall_score,
                            letter_score |-> letter_results.overall_score]])

(***************************************************************************)
(* Calls of the Coordinator                                                *)
(***************************************************************************)
\* at most this many of the eleven completions of one assessment come back degraded
MaxDegraded == 2

\* the value a filled reply gives to its number fields, in hundredths: 50, 75, 100
ReplyScores == {5000, 7500, 10000}

\* the agent that asks for each completion
AgentOf(task) ==
    CASE task \in {"ats_validation", "keyword_validation", "content_validation"} -> "ats"
      [] task \in {"cv_evaluation", "achievements_evaluation", "experience_evaluation",
                   "skills_evaluation"} -> "cv"
      [] OTHER -> "letter"

DegradedSets == {d \in SUBSET QualityTasks : Cardinality(d) <= MaxDegraded}

AssessCalls ==
    [op : {"assess_application_quality"},
     structure_valid : BOOLEAN,
     degraded : DegradedSets,
     reply_score : [ats : ReplyScores, cv : ReplyScores, letter : ReplyScores]]

\* what get_structured_completion returns for each task_type of the call
CompletionReplies(call) ==
    [task \in QualityTasks |->
        IF task \in call.degraded
        THEN DefaultResponse(TaskSchemas[task])
        ELSE FilledReply(task, call.reply_score[AgentOf(task)])]

StandardsCalls ==
    [op : {"_check_quality_standards"},
     aggregated_results :
         [overall_score : Scores,
          component_scores :
              [ats_compliance : Scores, cv_quality : Scores, letter_quality : Scores]]]

AssessApplicationQuality ==
    /\ fn_call.op = "assess_application_quality"
    /\ fn_result = NoResult
    /\ fn_result' = assess_application_quality(fn_call.structure_valid,
                                               CompletionReplies(fn_call))
    /\ UNCHANGED <<fn_call, wf_vars, gw_vars>>

CheckQualityStandards ==
    /\ fn_call.op = "_check_quality_standards"
    /\ fn_result = NoResult
    /\ fn_result' = Returned(check_quality_standards(fn_call.aggregated_results))
    /\ UNCHANGED <<fn_call, wf_vars, gw_vars>>

InitCoordinator ==
    /\ InitWorkflow
    /\ InitGateway
    /\ \/ fn_call \in AssessCalls
       \/ fn_call \in StandardsCalls
    /\ fn_result = NoResult

NextCoordinator ==
    \/ AssessApplicationQuality
    \/ CheckQualityStandards

SpecCoordinator == InitCoordinator /\ [][NextCoordinator]_vars

(***************************************************************************)
(* Claims about the Coordinator                                            *)
(***************************************************************************)
StandardsChecked ==
    /\ fn_call.op = "_check_quality_standards"
    /\ fn_result.kind = "returned"

Assessed ==
    /\ fn_call.op = "assess_application_quality"
    /\ fn_result # NoResult

\* the four comparisons against the 75-point constant, on scores in hundredths
FourComparisons(ats, cv, letter, overall) ==
    [ats_compliance |-> ats >= 7500, cv_quality |-> cv >= 7500,
     letter_quality |-> letter >= 7500, overall_quality |-> overall >= 7500]

\* the score the report holds for the sub-dimension a completion feeds
SubDimensionScore(report, task) ==
    LET ats == report.detailed_assessment.ats_compliance.validation_details
        cv == report.detailed_assessment.cv_quality.evaluation_summary
        letter == report.detailed_assessment.letter_quality.evaluation_summary
    IN  CASE task = "ats_validation" -> ats.format_validation.score
          [] task = "keyword_validation" -> ats.keyword_validation.score
          [] task = "content_validation" -> ats.content_validation.score
          [] task = "cv_evaluation" -> cv.content_quality.score
          [] task = "achievements_evaluation" -> cv.achievements_impact.score
          [] task = "experience_evaluation" -> cv.experience_presentation.score
          [] task = "skills_evaluation" -> cv.skills_relevance.score
          [] task = "content_evaluation" -> letter.content_relevance.score
          [] task = "tone_evaluation" -> letter.professional_tone.score
          [] task = "customization_evaluation" -> letter.customization_level.score
          [] task = "format_evaluation" -> letter.structure_quality.score

\* C17: _check_quality_standards returns as standards_results the four comparisons
\* ats >= 75, cv >= 75, letter >= 75, overall >= 75 of the aggregated results, and
\* meets_all_standards is true exactly when the four hold; in a report of
\* assess_application_quality the verdict is these comparisons on the three component scores
\* and the overall score, whatever the sub-dimension scores are.
C17_StandardsAreFourComparisons ==
    /\ StandardsChecked =>
           LET aggregated_results == fn_call.aggregated_results
               comparisons ==
                   FourComparisons(aggregated_results.component_scores.ats_compliance,
                                   aggregated_results.component_scores.cv_quality,
                                   aggregated_results.component_scores.letter_quality,
                                   aggregated_results.overall_score)
           IN  /\ fn_result.value.standards_results = comparisons
               /\ fn_result.value.meets_all_standards
                      <=> (\A k \in DOMAIN comparisons : comparisons[k])
    /\ (Assessed /\ fn_result.kind = "returned") =>
           LET report == fn_result.value
               comparisons ==
                   FourComparisons(report.component_scores.ats_score,
                                   report.component_scores.cv_score,
                                   report.component_scores.letter_score,
                                   report.overall_quality_score)
           IN  /\ report.meets_quality_standards.standards_results = comparisons
               /\ report.meets_quality_standards.meets_all_standards
                      <=> (\A k \in DOMAIN comparisons : comparisons[k])

\* an assessment whose cv and letter scores are exactly 75, with a sub-dimension at 0, that
\* meets all standards
C17_Witness ==
    /\ Assessed
    /\ fn_result.kind = "returned"
    /\ fn_result.value.component_scores.cv_score = 7500
    /\ fn_result.value.component_scores.letter_score = 7500
    /\ \E task \in fn_call.degraded : SubDimensionScore(fn_result.value, task).value = 0
    /\ fn_result.value.meets_quality_standards.meets_all_standards

\* C20: whichever completions of an assessment come back as the schema default,
\* assess_application_quality returns a report, and the sub-dimension of each such completion
\* has score 0 in it.
C20_DegradedRepliesScoreZero ==
    Assessed =>
        /\ fn_result.kind = "returned"
        /\ \A task \in fn_call.degraded :
               SubDimensionScore(fn_result.value, task) = Number(0)

\* the assessments that do return score 0 for every degraded completion
C20_ReturnedReportsScoreZero ==
    (Assessed /\ fn_result.kind = "returned") =>
        \A task \in fn_call.degraded :
            SubDimensionScore(fn_result.value, task) = Number(0)

\* the degraded format completion alone: the assessment raises TypeError
C20_FormatDefaultRaises ==
    /\ Assessed
    /\ fn_call.degraded = {"ats_validation"}
    /\ fn_result = FnRaised("TypeError")

(***************************************************************************)
(* LetterWriter._format_letter (agents/primary_agents/letter_writer.py)    *)
(*                                                                         *)
(* final_letter is kept as the sequence of the texts appended to it.       *)
(***************************************************************************)
\* the mutant of letter_formats: the creative style without formal closing
letter_formats_creative_unsigned ==
    [formal |-> [salutation |-> TRUE, company_address |-> TRUE, formal_closing |-> TRUE],
     modern |-> [salutation |-> TRUE, company_address |-> FALSE, formal_closing |-> FALSE],
     creative |-> [salutation |-> TRUE, company_address |-> FALSE, formal_closing |-> FALSE]]

\* LetterWriter.letter_formats
letter_formats ==
    [formal |-> [salutation |-> TRUE, company_address |-> TRUE, formal_closing |-> TRUE],
     modern |-> [salutation |-> TRUE, company_address |-> FALSE, formal_closing |-> FALSE],
     creative |-> [salutation |-> TRUE, company_address |-> FALSE, formal_closing |-> TRUE]]

\* for paragraph in content['body_paragraphs']: append the paragraph and a section
RECURSIVE AppendParagraphs(_, _, _)
AppendParagraphs(letter, body_paragraphs, i) ==
    IF i > Len(body_paragraphs) THEN letter
    ELSE AppendParagraphs(
             [final_letter |-> Append(letter.final_letter, body_paragraphs[i]),
              sections |-> Append(letter.sections, "body_paragraph")],
             body_paragraphs, i + 1)

\* one optional or fixed step of _format_letter
AddSection(letter, included, text, section) ==
    IF included
    THEN [final_letter |-> Append(letter.final_letter, text),
          sections |-> Append(letter.sections, section)]
    ELSE letter

\* _format_letter(content, company_name, format_style)
format_letter(content, company_name, format_style) ==
    LET format_config ==
            IF format_style \in DOMAIN letter_formats
            THEN letter_formats[format_style]
            ELSE letter_formats["formal"]
        dated == AddSection([final_letter |-> <<>>, sections |-> <<>>], TRUE, "today", "date")
        addressed ==
            AddSection(dated, format_config.company_address, company_name, "company_address")
        saluted ==
            AddSection(addressed, format_config.salutation, "Dear Hiring Manager,", "salutation")
        introduced == AddSection(saluted, TRUE, content.introduction, "introduction")
        bodied == AppendParagraphs(introduced, content.body_paragraphs, 1)
        closed == AddSection(bodied, TRUE, content.closing, "closing")
    IN  AddSection(closed, format_config.formal_closing, "Sincerely,", "signature")

\* at most this many body paragraphs in a letter
MaxParagraphs == 3

ParagraphPool == {"first paragraph", "second paragraph"}

\* the three styles of letter_formats and a name that is not one of them
FormatStyles == DOMAIN letter_formats \cup {"casual"}

LetterContents ==
    [introduction : {"", "introduction"},
     body_paragraphs : SeqsUpTo(ParagraphPool, MaxParagraphs),
     closing : {"closing"}]

FormatCalls ==
    [op : {"_format_letter"},
     content : LetterContents,
     company_name : {"Acme", "Globex"},
     format_style : FormatStyles]

FormatLetter ==
    /\ fn_call.op = "_format_letter"
    /\ fn_result = NoResult
    /\ fn_result' = Returned(format_letter(fn_call.content, fn_call.company_name,
                                           fn_call.format_style))
    /\ UNCHANGED <<fn_call, wf_vars, gw_vars>>

InitLetter ==
    /\ InitWorkflow
    /\ InitGateway
    /\ fn_call \in FormatCalls
    /\ fn_result = NoResult

NextLetter == FormatLetter

SpecLetter == InitLetter /\ [][NextLetter]_vars

(***************************************************************************)
(* Claims about LetterWriter._format_letter                                *)
(***************************************************************************)
Formatted ==
    /\ fn_call.op = "_format_letter"
    /\ fn_result.kind = "returned"

\* the optional sections of each style: formal all three, modern the salutation, creative
\* the salutation and the signature, any other name as formal
OptionalSections(format_style) ==
    CASE format_style = "modern" -> {"salutation"}
      [] format_style = "creative" -> {"salutation", "signature"}
      [] OTHER -> {"company_address", "salutation", "signature"}

Optional(section, format_style) ==
    IF section \in OptionalSections(format_style) THEN <<section>> ELSE <<>>

\* C19: the sections of _format_letter are, in this order, date, company_address (if the
\* style has it), salutation (if the style has it), introduction, one body_paragraph per
\* body paragraph, closing, signature (if the style has a formal closing); an unknown style
\* is formatted as formal.
C19_SectionsInFixedOrder ==
    Formatted =>
        fn_result.value.sections =
            <<"date">>
            \o Optional("company_address", fn_call.format_style)
            \o Optional("salutation", fn_call.format_style)
            \o <<"introduction">>
            \o [i \in 1..Len(fn_call.content.body_paragraphs) |-> "body_paragraph"]
            \o <<"closing">>
            \o Optional("signature", fn_call.format_style)

\* an unknown style with two body paragraphs, formatted with all the sections of formal
C19_Witness ==
    /\ Formatted
    /\ fn_call.format_style \notin DOMAIN letter_formats
    /\ Len(fn_call.content.body_paragraphs) = 2
    /\ fn_result.value.sections =
           <<"date", "company_address", "salutation", "introduction", "body_paragraph",
             "body_paragraph", "closing", "signature">>

(***************************************************************************)
(* Claims about exceptions inside CVMatcher.match_cv_to_job                *)
(***************************************************************************)
\* a call of match_cv_to_job where a sub-step meets a value that is no mapping (the .get on
\* it raises AttributeError inside the sub-step)
SubStepRaises ==
    /\ fn_call.op = "match_cv_to_job"
    /\ fn_result # NoResult
    /\ \/ ~IsMapping(fn_call.job_analysis.requirements)
       \/ ~IsMapping(fn_call.cv_analysis.skills)

\* C21: an exception raised inside the skills, experience or education sub-step of
\* match_cv_to_job propagates out of match_cv_to_job; no default score takes its place.
C21_SubStepExceptionsPropagate ==
    SubStepRaises => fn_result.kind = "raised"

\* requirements that are no mapping: match_cv_to_job returns with the three scores at the
\* default 0
C21_MalformedRequirementsScoreZero ==
    /\ SubStepRaises
    /\ ~IsMapping(fn_call.job_analysis.requirements)
    /\ fn_result.kind = "returned"
    /\ fn_result.value.skills_match.score = 0
    /\ fn_result.value.experience_match.score = 0
    /\ fn_result.value.education_match.score = 0
    /\ fn_result.value.overall_match.score = 0

(***************************************************************************)
(* Claims about the provider invocations of a gateway call                 *)
(***************************************************************************)
\* the requests the OpenAI provider received for the structured call in progress or just
\* finished
OpenAIStructuredRequests ==
    {i \in DOMAIN gw_trace :
        gw_call.method = "structured" /\ gw_trace[i].provider = "openai"}

\* C22: of the requests OpenAIHandler.get_structured_completion sends, the first attempt
\* reaches the provider with temperature 0.1 and the re-prompt after a parse failure with
\* temperature 0.
C22_RepromptAtTemperatureZero ==
    \A i \in OpenAIStructuredRequests :
        /\ gw_trace[i].prompt = "schema" => gw_trace[i].temperature = 1
        /\ gw_trace[i].prompt = "strict" => gw_trace[i].temperature = 0

\* the first attempt does reach the provider with temperature 0.1
C22_FirstAttemptAtLowTemperature ==
    \A i \in OpenAIStructuredRequests :
        gw_trace[i].prompt = "schema" => gw_trace[i].temperature = 1

\* a re-prompt that reached the provider with the model's default temperature 0.7
C22_RepromptAtDefaultTemperature ==
    \E i \in OpenAIStructuredRequests :
        /\ gw_trace[i].prompt = "strict"
        /\ gw_trace[i].temperature = handler_config.openai.temperature

\* how many times the call in progress or just finished invoked a provider
Invocations(provider) ==
    Cardinality({i \in DOMAIN gw_trace : gw_trace[i].provider = provider})

\* C23: a get_completion call invokes each provider at most once; a
\* get_structured_completion call invokes Anthropic at most once and OpenAI at most twice;
\* once a call has made that many invocations it is over.
C23_BoundedInvocations ==
    /\ gw_call.method = "completion" =>
           /\ \A provider \in Providers : Invocations(provider) <= 1
           /\ Len(gw_trace) = 2 => gw_pc = "idle"
    /\ gw_call.method = "structured" =>
           /\ Invocations("anthropic") <= 1
           /\ Invocations("openai") <= 2
           /\ Len(gw_trace) = 3 => gw_pc = "idle"

\* a structured call that is over after Anthropic once and OpenAI twice
C23_Witness ==
    /\ gw_call.method = "structured"
    /\ gw_pc = "idle"
    /\ Invocations("anthropic") = 1
    /\ Invocations("openai") = 2

(***************************************************************************)
(* Claims about the thresholds and weights of the scoring methods          *)
(***************************************************************************)
OverallQualityCalled ==
    /\ fn_call.op = "calculate_overall_quality"
    /\ fn_result.kind = "returned"

\* C24: in a result of calculate_cv_score, calculate_letter_score, calculate_ats_score or
\* calculate_overall_quality, meets_threshold is true exactly when the score reported in the
\* same result (rounded to 2 decimals) is >= 75.
C24_MeetsThresholdOfReportedScore ==
    /\ (ScoreCalled /\ fn_result.kind = "returned") =>
           (fn_result.value.meets_threshold <=> fn_result.value.total_score >= 7500)
    /\ OverallQualityCalled =>
           (fn_result.value.meets_threshold <=> fn_result.value.overall_score >= 7500)

\* calculate_overall_quality fed the 2-decimal totals 74.99, 75.0, 75.0: it reports 75.0
\* and meets_threshold false
C24_SeventyFiveReportedAsFailing ==
    /\ OverallQualityCalled
    /\ fn_call.cv_score = 7499
    /\ fn_call.letter_score = 7500
    /\ fn_call.ats_score = 7500
    /\ fn_result.value.overall_score = 7500
    /\ ~fn_result.value.meets_threshold

(***************************************************************************)
(* CVEvaluator and LetterEvaluator: _identify_strengths and                *)
(* _identify_improvements                                                  *)
(*                                                                         *)
(* An evaluation result of a dimension holds its score (in hundredths),    *)
(* the list the strengths are taken from ("strong") and the list the       *)
(* improvements are taken from ("weak"); the tables name the keys the      *)
(* code reads.  list(set(...)) makes each result a set.                    *)
(***************************************************************************)
\* CVEvaluator: the dimensions, the keys _identify_strengths and _identify_improvements read,
\* the literal 80 of each comparison, no slice
cv_dimensions ==
    <<[name |-> "content", strong |-> "strengths", weak |-> "issues",
       cutoff |-> 80, slice |-> 0],
      [name |-> "achievements", strong |-> "strong_points", weak |-> "weak_points",
       cutoff |-> 80, slice |-> 0],
      [name |-> "experience", strong |-> "effective_aspects", weak |-> "improvements",
       cutoff |-> 80, slice |-> 0],
      [name |-> "skills", strong |-> "strong_skills", weak |-> "missing_skills",
       cutoff |-> 80, slice |-> 0]>>

\* the mutant of minimum_scores: 80 everywhere
minimum_scores_eighty ==
    [content_relevance |-> 80, professional_tone |-> 80,
     customization |-> 80, structure_format |-> 80]

\* LetterEvaluator.minimum_scores
minimum_scores ==
    [content_relevance |-> 70, professional_tone |-> 75,
     customization |-> 70, structure_format |-> 75]

\* LetterEvaluator: the dimensions, the keys read, the entry of minimum_scores compared
\* with, and the [:3] slice on the strengths of content and custom
letter_dimensions ==
    <<[name |-> "content", strong |-> "addressed_requirements",
       weak |-> "missing_requirements",
       cutoff |-> minimum_scores.content_relevance, slice |-> 3],
      [name |-> "tone", strong |-> "strengths", weak |-> "issues",
       cutoff |-> minimum_scores.professional_tone, slice |-> 0],
      [name |-> "custom", strong |-> "company_specific", weak |-> "generic_elements",
       cutoff |-> minimum_scores.customization, slice |-> 3],
      [name |-> "format", strong |-> "strengths", weak |-> "issues",
       cutoff |-> minimum_scores.structure_format, slice |-> 0]>>

\* items[:n], the whole list when there is no slice
Sliced(items, slice) ==
    IF slice = 0 \/ Len(items) <= slice THEN items ELSE SubSeq(items, 1, slice)

Elements(items) == {items[i] : i \in DOMAIN items}

\* _identify_strengths: the strong items of each dimension whose score is >= its cutoff
identify_strengths(dimensions, evaluation_results) ==
    UNION {IF evaluation_results[dimensions[d].name].score >= 100 * dimensions[d].cutoff
           THEN Elements(Sliced(evaluation_results[dimensions[d].name].strong,
                                dimensions[d].slice))
           ELSE {} : d \in DOMAIN dimensions}

\* _identify_improvements: the weak items of each dimension whose score is < its cutoff
identify_improvements(dimensions, evaluation_results) ==
    UNION {IF evaluation_results[dimensions[d].name].score < 100 * dimensions[d].cutoff
           THEN Elements(evaluation_results[dimensions[d].name].weak)
           ELSE {} : d \in DOMAIN dimensions}

\* at most this many items in a list of an evaluation result
MaxItems == 4

\* dimension scores around the cutoffs 70, 75 and 80, in hundredths
DimensionScores == {6999, 7000, 7499, 7500, 7999, 8000}

\* the i-th item of a list of a dimension
Item(dimension, list, i) == [dimension |-> dimension, list |-> list, index |-> i]

\* evaluation results whose lists all have n items
EvaluationResults(dimensions, n) ==
    LET names == {dimensions[d].name : d \in DOMAIN dimensions}
    IN  {[name \in names |->
             [score |-> scores[name],
              strong |-> [i \in 1..n |-> Item(name, "strong", i)],
              weak |-> [i \in 1..n |-> Item(name, "weak", i)]]] :
            scores \in [names -> DimensionScores]}

ListsCalls ==
    {[op |-> "identify_lists", evaluator |-> "cv", evaluation_results |-> r] :
        r \in UNION {EvaluationResults(cv_dimensions, n) : n \in 1..MaxItems}}
    \cup {[op |-> "identify_lists", evaluator |-> "letter", evaluation_results |-> r] :
        r \in UNION {EvaluationResults(letter_dimensions, n) : n \in 1..MaxItems}}

DimensionsOf(evaluator) == IF evaluator = "cv" THEN cv_dimensions ELSE letter_dimensions

\* evaluate_cv / evaluate_letter: 'strengths' / 'strong_points' and 'improvement_areas' /
\* 'improvement_needed' of one set of evaluation results
IdentifyLists(evaluator) ==
    /\ fn_call.op = "identify_lists"
    /\ fn_call.evaluator = evaluator
    /\ fn_result = NoResult
    /\ fn_result' =
           Returned([strengths |-> identify_strengths(DimensionsOf(evaluator),
                                                      fn_call.evaluation_results),
                     improvements |-> identify_improvements(DimensionsOf(evaluator),
                                                            fn_call.evaluation_results)])
    /\ UNCHANGED <<fn_call, wf_vars, gw_vars>>

InitEvaluators ==
    /\ InitWorkflow
    /\ InitGateway
    /\ fn_call \in ListsCalls
    /\ fn_result = NoResult

NextEvaluators ==
    \/ IdentifyLists("cv")
    \/ IdentifyLists("letter")

SpecEvaluators == InitEvaluators /\ [][NextEvaluators]_vars

(***************************************************************************)
(* Claims about the strengths and improvements lists                       *)
(***************************************************************************)
ListsIdentified ==
    /\ fn_call.op = "identify_lists"
    /\ fn_result.kind = "returned"

\* a dimension's strong items reached the strengths / its weak items the improvements
FeedsStrengths(name) ==
    \E item \in fn_result.value.strengths : item.dimension = name
FeedsImprovements(name) ==
    \E item \in fn_result.value.improvements : item.dimension = name

\* C25 as stated: in both evaluators a dimension's items are added to the strengths if and
\* only if its score is >= 80 and to the improvements if and only if it is < 80.
C25_CutoffEightyEverywhere ==
    ListsIdentified =>
        \A name \in DOMAIN fn_call.evaluation_results :
            /\ FeedsStrengths(name) <=> fn_call.evaluation_results[name].score >= 8000
            /\ FeedsImprovements(name) <=> fn_call.evaluation_results[name].score < 8000

\* the cutoff of a dimension: 80 in the CV evaluator; in the letter evaluator 70 for content
\* relevance and customization, 75 for professional tone and structure/format
AmendedCutoff(evaluator, name) ==
    IF evaluator = "cv" THEN 8000
    ELSE IF name \in {"content", "custom"} THEN 7000 ELSE 7500

\* C25 amended: a strong item of a dimension is in the strengths exactly when the dimension's
\* score is >= its cutoff (and, for the letter's content and custom dimensions, the item is
\* among the first three); a weak item is in the improvements exactly when the score is
\* < the cutoff; so every dimension feeds exactly one of the two lists.
C25_CutoffPerDimension ==
    ListsIdentified =>
        \A name \in DOMAIN fn_call.evaluation_results :
            LET result == fn_call.evaluation_results[name]
                passes == result.score >= AmendedCutoff(fn_call.evaluator, name)
                sliced == fn_call.evaluator = "letter" /\ name \in {"content", "custom"}
            IN  /\ \A i \in DOMAIN result.strong :
                       result.strong[i] \in fn_result.value.strengths
                           <=> (passes /\ (sliced => i <= 3))
                /\ \A i \in DOMAIN result.weak :
                       result.weak[i] \in fn_result.value.improvements <=> ~passes
                /\ FeedsStrengths(name) <=> ~FeedsImprovements(name)

\* a letter whose content scores exactly 70 and whose tone scores 75, with four items in
\* each list: both feed the strengths, the content only its first three items
C25_Witness ==
    /\ ListsIdentified
    /\ fn_call.evaluator = "letter"
    /\ fn_call.evaluation_results["content"].score = 7000
    /\ fn_call.evaluation_results["tone"].score = 7500
    /\ Len(fn_call.evaluation_results["content"].strong) = 4
    /\ Item("content", "strong", 3) \in fn_result.value.strengths
    /\ Item("content", "strong", 4) \notin fn_result.value.strengths
    /\ Item("tone", "strong", 4) \in fn_result.value.strengths
    /\ ~FeedsImprovements("content")

RECURSIVE TableSum(_, _)
TableSum(weights, n) == IF n = 0 THEN 0 ELSE weights[n].weight + TableSum(weights, n - 1)

\* a metrics argument that gives every metric of the domain the value s
AllMetricsEqual(domain, metrics, s) ==
    /\ metrics.type = "dict"
    /\ \A i \in DOMAIN score_weights[domain] :
           /\ score_weights[domain][i].metric \in DOMAIN metrics.items
           /\ metrics.items[score_weights[domain][i].metric] = s

\* every completion of an assessment filled with the value s
AllRepliesAt(s) == [task \in QualityTasks |-> FilledReply(task, s)]

\* C26: every weight table applied in a weighted aggregation sums to 1.0 (QualityMetrics'
\* cv, letter and ats tables and its overall weights, the Coordinator's, ATSValidator's,
\* CVEvaluator's, LetterEvaluator's), so an aggregation of sub-scores that all equal s
\* yields s (rounded to 2 decimals); the three weights CVMatcher applies sum to 0.9 and
\* yield 0.9 * s.
C26_WeightsSumToOne ==
    /\ \A i \in DOMAIN Domains :
           TableSum(score_weights[Domains[i]], Len(score_weights[Domains[i]])) = 100
    /\ overall_weights.cv + overall_weights.letter + overall_weights.ats = 10
    /\ quality_weights.ats_compliance + quality_weights.cv_quality
           + quality_weights.letter_quality = 10
    /\ validation_weights.format_compliance + validation_weights.keyword_optimization
           + validation_weights.section_structure + validation_weights.content_clarity = 10
    /\ cv_evaluation_weights.content_quality + cv_evaluation_weights.achievements
           + cv_evaluation_weights.experience_presentation
           + cv_evaluation_weights.skills_presentation = 100
    /\ letter_evaluation_weights.content_relevance
           + letter_evaluation_weights.professional_tone
           + letter_evaluation_weights.customization
           + letter_evaluation_weights.structure_format = 100
    /\ matching_weights.required_skills + matching_weights.experience
           + matching_weights.education = 9
    /\ (ScoreCalled /\ fn_result.kind = "returned") =>
           \A s \in MetricValues :
               AllMetricsEqual(fn_call.domain, fn_call.metrics, s) =>
                   fn_result.value.total_score = RoundHundredths(s, 1000)
    /\ (OverallQualityCalled /\ fn_call.cv_score = fn_call.letter_score
            /\ fn_call.letter_score = fn_call.ats_score) =>
           fn_result.value.overall_score = fn_call.cv_score
    /\ (fn_call.op = "_aggregate_results" /\ fn_result.kind = "returned"
            /\ fn_call.ats_results = fn_call.cv_results
            /\ fn_call.cv_results = fn_call.letter_results) =>
           fn_result.value.overall_score = fn_call.ats_results.overall_score
    /\ \A s \in ReplyScores :
           /\ evaluate_cv(AllRepliesAt(s)).overall_score = s
           /\ evaluate_letter(AllRepliesAt(s)).overall_score = s
           /\ match_score(s, s, s) = 9 * s
    /\ validate_cv(TRUE, AllRepliesAt(10000)).value.overall_score = 10000
    /\ validate_cv(FALSE, AllRepliesAt(5000)).value.overall_score = 5000

\* calculate_overall_quality on three scores of 75: the overall score is 75
C26_Witness ==
    /\ OverallQualityCalled
    /\ fn_call.cv_score = 7500
    /\ fn_call.letter_score = 7500
    /\ fn_call.ats_score = 7500
    /\ fn_result.value.overall_score = 7500

(***************************************************************************)
(* The order of the workflow flags                                         *)
(***************************************************************************)
\* no flag of the order is true while an earlier one is false
IsPrefix(order) ==
    \A i \in 1..Len(order) : \A j \in 1..Len(order) :
        (i < j /\ workflow_states[order[j]]) => workflow_states[order[i]]

\* the order without the optional letter stage
StepsWithoutLetter ==
    SelectSeq(WorkflowSteps, LAMBDA step : step # "letter_generation")

\* C27 as stated: in every reachable state, for either value of generate_letter,
\* the true workflow flags are a prefix of document_processing, initial_analysis,
\* optimization, letter_generation, quality_check.
C27_FlagsFormPrefix == IsPrefix(WorkflowSteps)

\* C27 amended: with generate_letter true the true flags are a prefix of the five-step
\* order; with generate_letter false the letter_generation flag stays false and the
\* true flags are a prefix of the order without letter_generation.
C27_PrefixExceptSkippedLetter ==
    IF wf_generate_letter
    THEN IsPrefix(WorkflowSteps)
    ELSE /\ ~workflow_states["letter_generation"]
         /\ IsPrefix(StepsWithoutLetter)

\* C27 witness: a call without a letter returned, entered with the letter flag still set
\* by the call before: quality_check is set and letter_generation is not
C27_Witness ==
    /\ wf_pc = "idle"
    /\ wf_outcome.kind = "returned"
    /\ ~wf_generate_letter
    /\ wf_entry_states["letter_generation"]
    /\ workflow_states["quality_check"]
    /\ ~workflow_states["letter_generation"]

(***************************************************************************)
(* What ModelManager.get_completion returns                                *)
(***************************************************************************)
\* a get_completion call has returned normally
CompletionReturned ==
    /\ GatewayDone
    /\ gw_call.entry = "get_completion"
    /\ gw_outcome.kind = "returned"

\* the returned value is the text of the last provider invocation of the call
ReturnsProviderText ==
    /\ gw_trace # <<>>
    /\ gw_trace[Len(gw_trace)].reply.kind # "raise"
    /\ gw_outcome.value = TextValue(gw_trace[Len(gw_trace)].reply)

\* C28: every get_completion call that returns normally returns the text produced by a
\* provider invocation made during that call; it never returns without having invoked a
\* provider, for any preferred_service and task_type, a preferred_service that names no
\* configured provider included.
C28_ReturnsProviderText == CompletionReturned => ReturnsProviderText

\* the part of C28 the code satisfies: a call whose chosen service is one of the two
\* providers returns the text of a provider invocation
C28_ConfiguredServiceReturnsProviderText ==
    (CompletionReturned /\ gw_service \in Providers) => ReturnsProviderText

\* a call with a preferred_service that names no provider has returned None without an
\* invocation
C28_UnknownServiceReturnsNone ==
    ~(/\ CompletionReturned
      /\ gw_call.preferred_service = "cohere"
      /\ gw_trace = <<>>
      /\ gw_outcome.value = NoneValue)

(***************************************************************************)
(* QualityMetrics.get_quality_assessment and the priorities of its output  *)
(***************************************************************************)
\* get_quality_assessment: the three domain scores, then the overall quality of their
\* rounded totals; the assessments are held under cv, letter, ats; an exception of a
\* domain score is re-raised
get_quality_assessment(cv_metrics, letter_metrics, ats_metrics) ==
    LET cv_score == calculate_score("cv", cv_metrics)
        letter_score == calculate_score("letter", letter_metrics)
        ats_score == calculate_score("ats", ats_metrics)
    IN  IF cv_score.kind = "raised" THEN cv_score
        ELSE IF letter_score.kind = "raised" THEN letter_score
        ELSE IF ats_score.kind = "raised" THEN ats_score
        ELSE LET overall_quality ==
                     calculate_overall_quality(cv_score.value.total_score,
                                               letter_score.value.total_score,
                                               ats_score.value.total_score)
             IN  Returned([overall_quality |-> overall_quality,
                           cv |-> cv_score.value,
                           letter |-> letter_score.value,
                           ats |-> ats_score.value,
                           meets_all_thresholds |->
                               /\ cv_score.value.meets_threshold
                               /\ letter_score.value.meets_threshold
                               /\ ats_score.value.meets_threshold
                               /\ overall_quality.meets_threshold])

\* raw metric values of an assessment, in thousandths: 50, 70, 90
RawValues == {50000, 70000, 90000}

MetricNames(domain) == {score_weights[domain][i].metric : i \in DOMAIN score_weights[domain]}

\* every metric of the domain, each with any raw value
FullMetrics(domain) ==
    {[type |-> "dict", items |-> d] : d \in [MetricNames(domain) -> RawValues]}

\* every metric of the domain with the same raw value, or None
PlainMetrics(domain) ==
    {[type |-> "dict", items |-> [m \in MetricNames(domain) |-> v]] : v \in RawValues}
    \cup {[type |-> "None"]}

\* the arguments of get_quality_assessment: one domain's metrics vary freely
QualityAssessmentCalls ==
    {[op |-> "get_quality_assessment", cv_metrics |-> c, letter_metrics |-> l,
      ats_metrics |-> a] :
        c \in FullMetrics("cv"), l \in PlainMetrics("letter"), a \in PlainMetrics("ats")}
    \cup
    {[op |-> "get_quality_assessment", cv_metrics |-> c, letter_metrics |-> l,
      ats_metrics |-> a] :
        c \in PlainMetrics("cv"), l \in FullMetrics("letter"), a \in PlainMetrics("ats")}
    \cup
    {[op |-> "get_quality_assessment", cv_metrics |-> c, letter_metrics |-> l,
      ats_metrics |-> a] :
        c \in PlainMetrics("cv"), l \in PlainMetrics("letter"), a \in FullMetrics("ats")}

GetQualityAssessment ==
    /\ fn_call.op = "get_quality_assessment"
    /\ fn_result = NoResult
    /\ fn_result' = get_quality_assessment(fn_call.cv_metrics, fn_call.letter_metrics,
                                           fn_call.ats_metrics)
    /\ UNCHANGED <<fn_call, wf_vars, gw_vars>>

\* get_improvement_priorities applied to the assessment get_quality_assessment returned
GetImprovementPrioritiesOfAssessment ==
    /\ fn_call.op = "get_quality_assessment"
    /\ fn_result.kind = "returned"
    /\ fn_result' = [kind |-> "prioritised", value |-> fn_result.value,
                     priorities |-> get_improvement_priorities(fn_result.value)]
    /\ UNCHANGED <<fn_call, wf_vars, gw_vars>>

InitAssessment ==
    /\ InitWorkflow
    /\ InitGateway
    /\ fn_call \in QualityAssessmentCalls
    /\ fn_result = NoResult

NextAssessment ==
    \/ GetQualityAssessment
    \/ GetImprovementPrioritiesOfAssessment

\* one quality assessment and the improvement priorities of its result
SpecAssessment == InitAssessment /\ [][NextAssessment]_vars

(***************************************************************************)
(* Claims about the priorities of a quality assessment                     *)
(***************************************************************************)
Prioritised == fn_result.kind = "prioritised"

MetricsOf(domain) ==
    CASE domain = "cv" -> fn_call.cv_metrics
      [] domain = "letter" -> fn_call.letter_metrics
      [] domain = "ats" -> fn_call.ats_metrics

\* the priority names a component whose raw input metric is a lowest one of the domain
NamesLowestRaw(priority, domain) ==
    LET keys == component_keys[domain]
        raw == MetricsOf(domain).items
    IN  \E i \in DOMAIN keys :
            /\ priority = PriorityPrefix[domain] \o ComponentName(keys[i].key)
            /\ \A j \in DOMAIN keys : raw[keys[i].metric] <= raw[keys[j].metric]

\* the priority names a component whose weighted score (metric times weight) is a lowest
\* one of the domain
NamesLowestWeighted(priority, domain) ==
    LET keys == component_keys[domain]
        raw == MetricsOf(domain).items
    IN  \E i \in DOMAIN keys :
            /\ priority = PriorityPrefix[domain] \o ComponentName(keys[i].key)
            /\ \A j \in DOMAIN keys :
                   raw[keys[i].metric] * WeightOf(domain, keys[i].metric)
                       <= raw[keys[j].metric] * WeightOf(domain, keys[j].metric)

\* C29: when get_improvement_priorities is applied to the output of
\* get_quality_assessment, the component it names for a failing domain is the one whose
\* raw sub-metric score (the 0..100 input metric) is lowest in that domain.
C29_NamesLowestRawMetric ==
    Prioritised =>
        LET failing == FailingDomains(fn_result.value)
        IN  /\ Len(fn_result.priorities) = Len(failing)
            /\ \A k \in DOMAIN failing : NamesLowestRaw(fn_result.priorities[k], failing[k])

\* what the code does: the component named is one with the lowest weighted score
C29_NamesLowestWeightedScore ==
    Prioritised =>
        LET failing == FailingDomains(fn_result.value)
        IN  /\ Len(fn_result.priorities) = Len(failing)
            /\ \A k \in DOMAIN failing :
                   NamesLowestWeighted(fn_result.priorities[k], failing[k])

\* content_relevance 50, skills_match 90, experience_quality 90, format_compliance 70:
\* the CV fails with 74 and the priority is "Improve CV format"
C29_FormatNamedAlthoughContentIsLowest ==
    ~(/\ Prioritised
      /\ fn_call.cv_metrics.type = "dict"
      /\ fn_call.cv_metrics.items =
             [content_relevance |-> 50000, skills_match |-> 90000,
              experience_quality |-> 90000, format_compliance |-> 70000]
      /\ fn_result.value.cv.total_score = 7400
      /\ ~fn_result.value.cv.meets_threshold
      /\ fn_result.priorities[1] = PriorityPrefix.cv \o <<"f","o","r","m","a","t">>)

(***************************************************************************)
(* The overall standard of the Coordinator                                 *)
(***************************************************************************)
AggregateCalled ==
    /\ fn_call.op = "_aggregate_results"
    /\ fn_result.kind = "returned"

\* the three component entries of standards_results
ComponentStandards(standards_results) ==
    /\ standards_results.ats_compliance
    /\ standards_results.cv_quality
    /\ standards_results.letter_quality

\* C30: in Coordinator, whenever the ats, cv and letter scores each meet the 75
\* threshold, the rounded overall score of _aggregate_results also meets 75; the
\* overall_quality entry is never the only failing entry of standards_results, and
\* meets_all_standards is decided by the three component checks alone.
C30_OverallFollowsComponents ==
    AggregateCalled =>
        LET standards == check_quality_standards(fn_result.value)
            met == /\ fn_call.ats_results.overall_score >= 7500
                   /\ fn_call.cv_results.overall_score >= 7500
                   /\ fn_call.letter_results.overall_score >= 7500
        IN  /\ met => fn_result.value.overall_score >= 7500
            /\ ComponentStandards(standards.standards_results) <=> met
            /\ ComponentStandards(standards.standards_results) =>
                   standards.standards_results.overall_quality
            /\ standards.meets_all_standards
                   <=> ComponentStandards(standards.standards_results)

\* C30 witness: the three scores are exactly 75 and the overall score is 75; all four
\* entries hold
C30_Witness ==
    /\ AggregateCalled
    /\ fn_call.ats_results.overall_score = 7500
    /\ fn_call.cv_results.overall_score = 7500
    /\ fn_call.letter_results.overall_score = 7500
    /\ fn_result.value.overall_score = 7500
    /\ check_quality_standards(fn_result.value).meets_all_standards

====
